---- MODULE Spec2Model ----
(***************************************************************************)
(* bold-nfs: NFSv4.0 protocol engine.                                      *)
(*                                                                         *)
(* Thirteen specifications share one set of variables:                       *)
(*   SpecCM     the methods of ClientManager called directly, with any     *)
(*              principal (src/src/server/clientmanager.rs);               *)
(*   SpecActor  the ClientManager actor behind its mpsc mailbox, called    *)
(*              by several tasks through clones of ClientManagerHandle;    *)
(*   Spec       the server loop of NFSServer::start: one connection        *)
(*              served at a time, one COMPOUND at a time, its operations   *)
(*              evaluated in order by NFS40Server::compound;               *)
(*   SpecLease  the client operations and RENEW under a wall clock;        *)
(*   SpecFM     the File Manager: PUTFH, LOOKUP, REMOVE and FILE_SYNC      *)
(*              WRITE over a backing VFS that other programs change        *)
(*              (src/lib/src/server/filemanager/mod.rs);                   *)
(*   SpecIO     WRITE, COMMIT and the write cache of a file                *)
(*              (src/lib/src/server/filemanager/caching.rs);               *)
(*   SpecOpen   OPEN, CLOSE and REMOVE under the root and a directory      *)
(*              (src/lib/src/server/nfs40/op_open.rs);                     *)
(*   SpecConfirm  OPEN, OPEN_CONFIRM and CLOSE by two owners               *)
(*              (src/lib/src/server/nfs40/op_openconfirm.rs);              *)
(*   SpecDir    READDIR of the root and of a directory                     *)
(*              (src/bold-lib/src/server/nfs40/op_readdir.rs);             *)
(*   SpecWire   a connection read through the record marking codec         *)
(*              (src/src/proto/mod.rs, src/lib/src/lib.rs);                *)
(*   SpecRemove REMOVE as an operation of a COMPOUND                       *)
(*              (src/bold-lib/src/server/nfs40/op_remove.rs);              *)
(*   SpecAttr   attribute bitmaps decoded and encoded again                *)
(*              (src/bold-lib/src/proto/utils.rs);                         *)
(*   SpecServe  the accept loop and the peers of the listener, with the    *)
(*              steps of the server taken fairly (src/lib/src/lib.rs).     *)
(***************************************************************************)
EXTENDS Integers, Sequences, FiniteSets, TLC

\* ------------------------------------------------------------------------
\* Bounds of the model
\* ------------------------------------------------------------------------
\* number of distinct values the cookie generator delivers
MaxCookie == 3
\* longest argarray of a COMPOUND
MaxOps == 2
\* seconds that pass in one step of the clock
TickSeconds == 30
\* the clock stops here
MaxClock == 90
\* filehandle ids the file manager mints before the model stops it
MaxMint == 2
\* highest version a filehandle record reaches
MaxVersion == 2
\* longest file content
MaxLen == 3
\* the clock of the file operations stops here
MaxFsClock == 30
\* share reservations granted per server lifetime
MaxOpen == 2
\* filehandles minted per server lifetime where directories are read
MaxDirMint == 2
\* fragments in the read buffer of a connection
MaxFragments == 2
\* replies sent on one connection
MaxSent == 2

\* ------------------------------------------------------------------------
\* Value domains
\* ------------------------------------------------------------------------
None == "None"

\* client id strings (NfsClientId4.id)
Ids == {"LAPTOP", "LAPTOP-1"}

\* Option<String> principals; the operations always pass None
Principals == {None, "Linux"}

\* client-supplied verifiers (stored, never inspected)
Verifiers == {"17d543ae", "2d054338"}

\* values of the 8-byte setclientid_confirm cookie
Cookies == 1..MaxCookie

\* numeric client ids a request may name: every id the server can have
\* assigned, and one it never assigns
ClientIds == 1..(Cardinality(Ids) + 1)

\* tasks holding a clone of the ClientManagerHandle (SpecActor)
Tasks == {"t1", "t2"}

\* client addresses of the TCP connections the listener accepts in turn
Conns == {"127.0.0.1:790"}

\* no connection is being served
NoConn == "-"

\* Option<Vec<u8>> None for the current filehandle
NoFh == << >>

\* the root filehandle id, the single byte 0x80
RootFhId == <<128>>

VARIABLES
  db,             \* ClientManager.db: the set of ClientEntry records
  client_id_seq,  \* ClientManager.client_id_seq
  filehandles,    \* ClientManager.filehandles: client_addr -> filehandle id
  drawn,          \* cookies the random generator has delivered so far
  mailbox,        \* ClientManager.receiver: queued ClientManagerMessage
  result,         \* per task: idle, or pending on its oneshot receiver
  last_call,      \* history: the last direct ClientManager call, the table
                  \* before it
  serving,        \* the connection the accept loop is serving, or NoConn
  pc,             \* position of the connection task
  nargs,          \* args.argarray.len() of the COMPOUND in progress
  idx,            \* entries of the argarray evaluated so far
  resarray,       \* Compound4res.resarray being built
  last_status,    \* last_status of NFS40Server::compound
  filehandle,     \* NfsRequest.filehandle_id: the current filehandle
  failed_at,      \* history: position of the first non-OK operation, or 0
  last_op,        \* history: the operation evaluated last and what it saw
  reply,          \* the last reply written to the connection
  clock,          \* wall-clock time, in seconds since the server started
  refreshed,      \* history: per clientid, when its lease was last
                  \* confirmed or renewed
  last_renew,     \* history: the last RENEW, what it saw and returned
  backend,        \* the file system behind the root VfsPath, None before
                  \* the server is constructed
  fs,             \* the backing VFS: per path, existence, content, mtime
  fmanager,       \* FileManager: fhdb, next_fh_id, cachedb; alive until the
                  \* actor task panics
  write_caches,   \* the WriteCache actors: filehandle id, serial, filelike, changed
  request,        \* NfsRequest.filehandle (Option<Filehandle>) of the
                  \* COMPOUND in progress; alive until the task panics
  filehandle_cache, \* per connection: (SystemTime, Filehandle) by id
  write_cache,    \* per connection: the local write cursor
  handed,         \* history: per path, the ids LOOKUP has returned for it
  unstable,       \* history: UNSTABLE writes no COMMIT has followed yet
  last_fs,        \* history: the last file operation and what it saw
  src,            \* the read buffer of the Framed transport: the fragments
                  \* that have arrived and are not yet consumed
  transport,      \* the connection the loop of NFSServer::start reads:
                  \* open or not, the replies sent, the last decode
  attrmask,       \* an attribute bitmap on its way through read_attrs and
                  \* file_attrs_to_bitmap
  listener        \* the TcpListener and its peers: the connections waiting
                  \* to be accepted, the one accepted, the peers whose
                  \* request is not answered yet

cmvars == <<db, client_id_seq, filehandles, drawn>>

actorvars == <<mailbox, result>>

connvars ==
  <<serving, pc, nargs, idx, resarray, last_status, filehandle, failed_at,
    last_op, reply>>

leasevars == <<clock, refreshed, last_renew>>

fmvars ==
  <<backend, fs, fmanager, write_caches, request, filehandle_cache,
    write_cache, handed, unstable, last_fs>>

wirevars == <<src, transport, attrmask, listener>>

vars ==
  <<db, client_id_seq, filehandles, drawn, mailbox, result, last_call,
    serving, pc, nargs, idx, resarray, last_status, filehandle, failed_at,
    last_op, reply, leasevars, fmvars, wirevars>>

\* ------------------------------------------------------------------------
\* Client Manager (src/src/server/clientmanager.rs)
\* ------------------------------------------------------------------------

\* struct ClientEntry; the callback is stored and never inspected
ClientEntry(principal, verifier, id, clientid, cookie, confirmed) ==
  [principal |-> principal, verifier |-> verifier, id |-> id,
   clientid |-> clientid, setclientid_confirm |-> cookie,
   confirmed |-> confirmed]

Ok(entry) == [ok |-> TRUE, entry |-> entry, nfs_error |-> "NFS4_OK"]

\* struct ClientManagerError
ClientManagerError(nfs_error) ==
  [ok |-> FALSE, entry |-> None, nfs_error |-> nfs_error]

\* multi-index lookups
get_by_id(d, id) == {e \in d : e.id = id}

get_by_clientid(d, clientid) == {e \in d : e.clientid = clientid}

remove_by_setclientid_confirm(d, cookie) ==
  {e \in d : e.setclientid_confirm # cookie}

modify_by_setclientid_confirm(d, cookie) ==
  {IF e.setclientid_confirm = cookie
     THEN [e EXCEPT !.confirmed = TRUE] ELSE e : e \in d}

\* existing_clientid: Option<u64> = None
NoClientId == 0

\* get_next_client_id: the incremented sequence number
get_next_client_id(seq) == seq + 1

\* add_client_record: client_id.unwrap_or_else(get_next_client_id), the
\* drawn cookie, confirmed = false; insert and return the record.
add_client_record(d, seq, verifier, id, principal, client_id, cookie) ==
  LET cid == IF client_id = NoClientId THEN get_next_client_id(seq) ELSE client_id
      client == ClientEntry(principal, verifier, id, cid, cookie, FALSE)
  IN [db |-> d \cup {client},
      seq |-> IF client_id = NoClientId THEN get_next_client_id(seq) ELSE seq,
      res |-> Ok(client)]

\* A mutation of upsert_client: existing_clientid is never set, every call
\* allocates a new clientid.
upsert_client_fresh(d, seq, verifier, id, principal, cookie) ==
  LET entries == get_by_id(d, id)
      kept == d \ {e \in entries : ~e.confirmed}
  IN IF \E e \in entries : e.confirmed /\ e.principal # principal
       THEN {[db |-> d, seq |-> seq,
              res |-> ClientManagerError("NFS4ERR_CLID_INUSE")]}
       ELSE {add_client_record(kept, seq, verifier, id, principal,
                               NoClientId, cookie)}

\* A mutation of upsert_client: unconfirmed records of the id are kept.
upsert_client_keep(d, seq, verifier, id, principal, cookie) ==
  LET entries == get_by_id(d, id)
  IN IF \E e \in entries : e.confirmed /\ e.principal # principal
       THEN {[db |-> d, seq |-> seq,
              res |-> ClientManagerError("NFS4ERR_CLID_INUSE")]}
       ELSE IF entries = {}
              THEN {add_client_record(d, seq, verifier, id, principal,
                                      NoClientId, cookie)}
              ELSE {add_client_record(d, seq, verifier, id, principal,
                                      e.clientid, cookie) : e \in entries}

\* A mutation of upsert_client: the unconfirmed records are removed before
\* the principal check returns.
upsert_client_dirty(d, seq, verifier, id, principal, cookie) ==
  LET entries == get_by_id(d, id)
      kept == d \ {e \in entries : ~e.confirmed}
  IN IF \E e \in entries : e.confirmed /\ e.principal # principal
       THEN {[db |-> kept, seq |-> seq,
              res |-> ClientManagerError("NFS4ERR_CLID_INUSE")]}
       ELSE IF entries = {}
              THEN {add_client_record(kept, seq, verifier, id, principal,
                                      NoClientId, cookie)}
              ELSE {add_client_record(kept, seq, verifier, id, principal,
                                      e.clientid, cookie) : e \in entries}

\* upsert_client: the set of outcomes [db, seq, res].  The loop returns
\* CLID_INUSE at a confirmed entry of the id with another principal, before
\* anything is removed; otherwise every unconfirmed entry of the id is
\* removed and the new record reuses the clientid of the entry the loop saw
\* last (the iteration order of the index is not specified).
upsert_client(d, seq, verifier, id, principal, cookie) ==
  LET entries == get_by_id(d, id)
      kept == d \ {e \in entries : ~e.confirmed}
  IN IF \E e \in entries : e.confirmed /\ e.principal # principal
       THEN {[db |-> d, seq |-> seq,
              res |-> ClientManagerError("NFS4ERR_CLID_INUSE")]}
       ELSE IF entries = {}
              THEN {add_client_record(kept, seq, verifier, id, principal,
                                      NoClientId, cookie)}
              ELSE {add_client_record(kept, seq, verifier, id, principal,
                                      e.clientid, cookie) : e \in entries}

\* A mutation of confirm_client: the previously confirmed record is kept.
confirm_client_keep(d, client_id, cookie, principal) ==
  LET entries == get_by_clientid(d, client_id)
      match == {e \in entries : e.setclientid_confirm = cookie}
  IN IF entries = {}
       THEN {[db |-> d, res |-> ClientManagerError("NFS4ERR_STALE_CLIENTID")]}
       ELSE IF \E e \in entries : e.principal # principal
         THEN {[db |-> d, res |-> ClientManagerError("NFS4ERR_CLID_INUSE")]}
         ELSE IF match = {}
           THEN {[db |-> d,
                  res |-> ClientManagerError("NFS4ERR_STALE_CLIENTID")]}
           ELSE {[db |-> modify_by_setclientid_confirm(d, cookie),
                  res |-> Ok([e EXCEPT !.confirmed = TRUE])] : e \in match}

\* A mutation of confirm_client: a record that is already confirmed is
\* refused.
confirm_client_once(d, client_id, cookie, principal) ==
  LET entries == get_by_clientid(d, client_id)
      match == {e \in entries : e.setclientid_confirm = cookie /\ ~e.confirmed}
  IN IF entries = {}
       THEN {[db |-> d, res |-> ClientManagerError("NFS4ERR_STALE_CLIENTID")]}
       ELSE IF \E e \in entries : e.principal # principal
         THEN {[db |-> d, res |-> ClientManagerError("NFS4ERR_CLID_INUSE")]}
         ELSE IF match = {}
           THEN {[db |-> d,
                  res |-> ClientManagerError("NFS4ERR_STALE_CLIENTID")]}
           ELSE {[db |-> modify_by_setclientid_confirm(d, cookie),
                  res |-> Ok([e EXCEPT !.confirmed = TRUE])] : e \in match}

\* confirm_client: the set of outcomes [db, res].  No entry of the
\* clientid: STALE_CLIENTID.  An entry with another principal: CLID_INUSE,
\* returned inside the loop, before anything is removed.  After the loop
\* the confirmed entry with another cookie that the loop saw last is
\* removed (also when no entry carries the cookie), then the entry that
\* carries the cookie is marked confirmed and returned, or STALE_CLIENTID.
confirm_client(d, client_id, cookie, principal) ==
  LET entries == get_by_clientid(d, client_id)
      olds == {e \in entries :
                 e.confirmed /\ e.setclientid_confirm # cookie}
      match == {e \in entries : e.setclientid_confirm = cookie}
      after(d1) ==
        IF match = {}
          THEN {[db |-> d1,
                 res |-> ClientManagerError("NFS4ERR_STALE_CLIENTID")]}
          ELSE {[db |-> modify_by_setclientid_confirm(d1, cookie),
                 res |-> Ok([e EXCEPT !.confirmed = TRUE])] : e \in match}
  IN IF entries = {}
       THEN {[db |-> d, res |-> ClientManagerError("NFS4ERR_STALE_CLIENTID")]}
       ELSE IF \E e \in entries : e.principal # principal
         THEN {[db |-> d, res |-> ClientManagerError("NFS4ERR_CLID_INUSE")]}
         ELSE IF olds = {}
           THEN after(d)
           ELSE UNION {after(remove_by_setclientid_confirm(
                               d, old.setclientid_confirm)) : old \in olds}

\* A mutation of get_client_confirmed: any record of the clientid is found.
get_client_confirmed_any(d, clientid) ==
  get_by_clientid(d, clientid)

\* get_client_confirmed: the confirmed records of the clientid (the code
\* returns the first one found, or None when the set is empty)
get_client_confirmed(d, clientid) ==
  {r \in get_by_clientid(d, clientid) : r.confirmed}

\* set_current_fh: filehandles.insert(client_addr, filehandle)
set_current_fh(fhs, client_addr, fh) ==
  [a \in DOMAIN fhs \cup {client_addr} |->
     IF a = client_addr THEN fh ELSE fhs[a]]

\* rng.sample over 255^8 values, modelled as a generator that never repeats
\* a value: cookies are only compared for equality, so the least value not
\* delivered yet stands for any fresh one.
NewCookie(dr) ==
  CHOOSE c \in Cookies \ dr : \A o \in Cookies \ dr : c <= o

\* ------------------------------------------------------------------------
\* File Manager (src/lib/src/server/filemanager/mod.rs) and the backing VFS
\* ------------------------------------------------------------------------

\* names a LOOKUP, REMOVE or the environment may use
Names == {"a", "b"}

\* paths are sequences of names; the root "/" is the empty one
RootPath == << >>

\* the paths the backing VFS may hold an object at, all regular files
Paths == {<<n>> : n \in Names}

\* the files other programs remove and create while the server runs
Volatile == {<<"a">>}

\* the directory of the exported tree besides the root
Dirs == {<<"d">>}
\* the name an OPEN of the model creates a file under, and the paths it
\* creates it at: in the root and in the directory
OpenNames == {"c"}
Created == {d \o <<n>> : d \in {RootPath} \cup Dirs, n \in OpenNames}
\* VfsPath::parent; the parent of the root is the root
parent(path) == SubSeq(path, 1, Len(path) - 1)
\* file systems the root VfsPath stands on: MemoryFS reports no modification
\* time and honours seek on a file opened for append; PhysicalFS reports the
\* modification time and appends every write
Backends == {"MemoryFS", "PhysicalFS"}

\* FileManager.boot_time, seconds since the epoch at server start
BootTime == 1700000000

\* next_fh_id: 100
FirstFhId == 100

\* cache_ttl: 10 seconds
CacheTtl == 10
\* next_stateid_id: 100
FirstStateId == 100

\* the bytes every WRITE of the model carries
WriteData == <<7>>

\* the offsets a WRITE of the model names
Offsets == {1}

\* u64::to_be_bytes of a value below 2^31
to_be_bytes(n) ==
  <<0, 0, 0, 0, (n \div 16777216) % 256, (n \div 65536) % 256,
    (n \div 256) % 256, n % 256>>

\* the id get_filehandle_id builds for sequence number seq
NewFhId(seq) == <<128>> \o to_be_bytes(BootTime) \o to_be_bytes(seq) \o <<1>>

\* every id a PUTFH of the model may carry: the root id, the ids the file
\* manager can mint, and one it never mints
FhIds ==
  {RootFhId} \cup {NewFhId(FirstFhId + k) : k \in 0..MaxMint}

\* std::time::SystemTime::now, seconds since the epoch
Now(clk) == BootTime + clk

\* VfsPath::exists
Exists(vfs, path) == path \in DOMAIN vfs /\ vfs[path].exists

\* VfsPath::is_dir: false for a path that does not exist
is_dir(vfs, path) == Exists(vfs, path) /\ path \in {RootPath} \cup Dirs

\* open_file and append_file succeed: the path is a file that exists
IsFile(vfs, path) == Exists(vfs, path) /\ ~is_dir(vfs, path)

\* Cursor<Vec<u8>>: seek(Start(offset)) and write_all(data); the gap up to
\* offset is filled with zeroes
WriteAt(buf, offset, data) ==
  LET n == IF Len(buf) > offset + Len(data)
             THEN Len(buf) ELSE offset + Len(data)
  IN [i \in 1..n |->
        IF i > offset /\ i <= offset + Len(data)
          THEN data[i - offset]
          ELSE IF i <= Len(buf) THEN buf[i] ELSE 0]

\* append_file(), seek(Start(offset)), write(data), flush(): a file opened
\* for append on PhysicalFS takes every write at its end, the MemoryFS
\* writer takes it at the seek position
append_write(b, vfs, path, offset, data, clk) ==
  [vfs EXCEPT ![path] =
     [exists |-> TRUE,
      content |-> IF b = "PhysicalFS"
                    THEN vfs[path].content \o data
                    ELSE WriteAt(vfs[path].content, offset, data),
      modified |-> Now(clk)]]

\* the bytes data stand at offset in content
HoldsAt(content, offset, data) ==
  /\ Len(content) >= offset + Len(data)
  /\ \A i \in 1..Len(data) : content[offset + i] = data[i]

\* Filehandle::attr_change: the modification time of the file in whole
\* seconds when the backend reports one, else the default (the version)
attr_change(b, vfs, path, default) ==
  IF Exists(vfs, path) /\ b = "PhysicalFS"
    THEN vfs[path].modified
    ELSE default

\* Filehandle::new: version + 1 and the attributes read from the file now;
\* of the attributes, only change is modelled
Filehandle_new(b, vfs, path, id, version) ==
  [id |-> id, path |-> path,
   attr_change |-> attr_change(b, vfs, path, version + 1),
   write_cache |-> {},
   verifier |-> {},
   locks |-> {},
   version |-> version + 1]

\* FilehandleDb::remove_by_id
remove_by_id(d, id) == {e \in d : e.id # id}

\* FilehandleDb::insert: id and path are hashed_unique, an insert that
\* breaks either index panics and takes the actor task down
insert(self, fh) ==
  IF \E e \in self.fhdb : e.id = fh.id \/ e.path = fh.path
    THEN [self EXCEPT !.alive = FALSE]
    ELSE [self EXCEPT !.fhdb = @ \cup {fh}]

\* get_filehandle_by_path: Option<Filehandle> as a set
get_filehandle_by_path(self, path) == {e \in self.fhdb : e.path = path}

\* get_filehandle_by_id: the record of the id when its file exists; a
\* record whose file is gone is removed
get_filehandle_by_id(self, vfs, id) ==
  LET fh == get_by_id(self.fhdb, id)
  IN IF fh # {} /\ \A e \in fh : ~Exists(vfs, e.path)
       THEN [self |-> [self EXCEPT !.fhdb = remove_by_id(@, id)], res |-> {}]
       ELSE [self |-> self, res |-> fh]

\* A mutation of get_filehandle_id: the sequence number is not advanced.
get_filehandle_id_same(self, path) ==
  LET exists == get_filehandle_by_path(self, path)
  IN IF exists # {}
       THEN [self |-> self, id |-> (CHOOSE e \in exists : TRUE).id]
       ELSE IF path = RootPath
         THEN [self |-> self, id |-> RootFhId]
         ELSE [self |-> self, id |-> NewFhId(self.next_fh_id)]

\* get_filehandle_id: the id of the record of the path if there is one, the
\* single byte 0x80 for the root, else 0x80 || boot_time || next_fh_id ||
\* 0x01 with next_fh_id advanced
get_filehandle_id(self, path) ==
  LET exists == get_filehandle_by_path(self, path)
  IN IF exists # {}
       THEN [self |-> self, id |-> (CHOOSE e \in exists : TRUE).id]
       ELSE IF path = RootPath
         THEN [self |-> self, id |-> RootFhId]
         ELSE [self |-> [self EXCEPT !.next_fh_id = @ + 1],
               id |-> NewFhId(self.next_fh_id)]

\* get_filehandle: the stored record, or a new one (version 0 + 1) inserted
get_filehandle(self, b, vfs, path) ==
  LET a == get_filehandle_id(self, path)
      g == get_filehandle_by_id(a.self, vfs, a.id)
      fh == Filehandle_new(b, vfs, path, a.id, 0)
  IN IF g.res # {}
       THEN [self |-> g.self, fh |-> CHOOSE e \in g.res : TRUE]
       ELSE [self |-> insert(g.self, fh), fh |-> fh]

\* A mutation of touch_filehandle: the new record gets a new id.
touch_filehandle_remint(self, b, vfs, fh) ==
  insert([self EXCEPT !.fhdb = remove_by_id(@, fh.id)],
         Filehandle_new(b, vfs, fh.path, NewFhId(self.next_fh_id),
                        fh.version))

\* touch_filehandle: a new record for the same id and file, built from the
\* version of the old one, replaces it
touch_filehandle(self, b, vfs, fh) ==
  insert([self EXCEPT !.fhdb = remove_by_id(@, fh.id)],
         Filehandle_new(b, vfs, fh.path, fh.id,
                        fh.version))

\* update_filehandle: the record supplied replaces the one of its id
update_filehandle(self, fh) ==
  insert([self EXCEPT !.fhdb = remove_by_id(@, fh.id)], fh)

\* handle_message(TouchFile)
TouchFile(self, b, vfs, id) ==
  LET g == get_filehandle_by_id(self, vfs, id)
  IN IF g.res # {}
       THEN touch_filehandle(g.self, b, vfs, CHOOSE e \in g.res : TRUE)
       ELSE g.self

\* WriteCache::new: the file is read into the cursor, changed = false.
\* serial tells the actors apart: a WriteCacheHandle is the serial of the
\* actor its sender leads to.
WriteCache_new(vfs, fh, serial) ==
  [id |-> fh.id, path |-> fh.path, serial |-> serial, listed |-> TRUE,
   filelike |-> vfs[fh.path].content, changed |-> FALSE]

\* get_cache_handle: the handle registered for the id, or a new write cache
\* (open_file().unwrap() panics when the file is gone) attached to the
\* record supplied, which replaces the stored one
get_cache_handle(self, vfs, fh, serial) ==
  IF fh.id \in self.cachedb
    THEN self
    ELSE IF ~IsFile(vfs, fh.path)
      THEN [self EXCEPT !.alive = FALSE]
      ELSE update_filehandle(
             [self EXCEPT !.cachedb = @ \cup {fh.id}],
             [fh EXCEPT !.write_cache = {serial}])

\* drop_cache_handle: the registry entry goes, the stored record loses its
\* write cache
drop_cache_handle(self, vfs, filehandle_id) ==
  LET g == get_filehandle_by_id(
             [self EXCEPT !.cachedb = @ \ {filehandle_id}], vfs,
             filehandle_id)
  IN IF g.res # {}
       THEN update_filehandle(
              g.self, [(CHOOSE e \in g.res : TRUE) EXCEPT !.write_cache = {}])
       ELSE g.self

\* VfsPath::remove_file, its error ignored; the directory is modified
remove_file(vfs, path, clk) ==
  IF IsFile(vfs, path)
    THEN [vfs EXCEPT ![path] = [exists |-> FALSE, content |-> << >>,
                                modified |-> 0],
                     ![parent(path)].modified = Now(clk)]
    ELSE vfs

\* handle_message(RemoveFile): a directory is listed (read_dir) and stays,
\* anything else goes through remove_file; the record of the path is
\* removed; the record of the parent is unwrapped and touched
RemoveFile(self, b, vfs, path, clk) ==
  LET fh == get_filehandle_by_path(self, path)
      vfs1 == IF is_dir(vfs, path) THEN vfs ELSE remove_file(vfs, path, clk)
      self1 == IF fh # {}
                 THEN [self EXCEPT
                         !.fhdb = remove_by_id(
                                    @, (CHOOSE e \in fh : TRUE).id)]
                 ELSE self
      parent_filehandle == get_filehandle_by_path(self1, parent(path))
  IN [vfs |-> vfs1,
      self |-> IF parent_filehandle = {}
                 THEN [self1 EXCEPT !.alive = FALSE]
                 ELSE touch_filehandle(self1, b, vfs1,
                                       CHOOSE e \in parent_filehandle : TRUE)]

\* A mutation of send_filehandle_request: a path that does not exist is
\* reported as a stale fh.
send_filehandle_request_stale(found, path_set, filehandle_set) ==
  IF found THEN "NFS4_OK" ELSE "NFS4ERR_STALE"

\* send_filehandle_request: the status for the reply of the file manager;
\* None for a path without a fh id is NOENT, any other None is STALE
send_filehandle_request(found, path_set, filehandle_set) ==
  IF found
    THEN "NFS4_OK"
    ELSE IF path_set /\ ~filehandle_set
      THEN "NFS4ERR_NOENT"
      ELSE "NFS4ERR_STALE"

\* attach_locks: the locking states of the id are put on the copy of the
\* fh that is handed out
attach_locks(self, fh) ==
  [fh EXCEPT !.locks = {l \in self.lockdb : l.filehandle_id = fh.id}]

\* handle_message(GetFilehandle) for a path: a file that exists gets its
\* fh, any other path None
GetFilehandle_path(self, b, vfs, path) ==
  IF Exists(vfs, path)
    THEN LET g == get_filehandle(self, b, vfs, path)
         IN [self |-> g.self, res |-> {attach_locks(g.self, g.fh)}]
    ELSE [self |-> self, res |-> {}]

\* handle_message(GetFilehandle) for an id
GetFilehandle_id(self, vfs, id) ==
  LET g == get_filehandle_by_id(self, vfs, id)
  IN [self |-> g.self, res |-> {attach_locks(g.self, e) : e \in g.res}]

\* get_new_lockingstate_id: four zero bytes and next_stateid_id, which is
\* advanced
get_new_lockingstate_id(self) ==
  [self |-> [self EXCEPT !.next_stateid_id = @ + 1],
   stateid |-> <<0, 0, 0, 0>> \o to_be_bytes(self.next_stateid_id)]

\* LockingState::new_shared_reservation
new_shared_reservation(filehandle_id, stateid, client_id, owner, share_access, share_deny) ==
  [stateid |-> stateid, seqid |-> 1, client_id |-> client_id,
   owner |-> owner, lock_type |-> "Open", filehandle_id |-> filehandle_id,
   share_access |-> share_access, share_deny |-> share_deny]

\* VfsPath::create_file: an empty file stands at the path, a file that was
\* there is truncated; a path that is a directory cannot be created
vfs_create_file(vfs, path, clk) ==
  [vfs EXCEPT ![path] = [exists |-> TRUE, content |-> << >>,
                         modified |-> Now(clk)],
              ![parent(path)].modified =
                 IF Exists(vfs, path) THEN @ ELSE Now(clk)]

\* FileManager::create_file: the file is created, its fh looked up or
\* stored, the record of the parent unwrapped and touched
create_file(self, b, vfs, request_file, clk) ==
  IF is_dir(vfs, request_file) \/ ~is_dir(vfs, parent(request_file))
    THEN [vfs |-> vfs, self |-> self, res |-> {}]
    ELSE LET vfs1 == vfs_create_file(vfs, request_file, clk)
             g == get_filehandle(self, b, vfs1, request_file)
             parent_filehandle ==
               get_filehandle_by_path(g.self, parent(request_file))
         IN IF parent_filehandle = {}
              THEN [vfs |-> vfs1, self |-> [g.self EXCEPT !.alive = FALSE],
                    res |-> {}]
              ELSE [vfs |-> vfs1,
                    self |-> touch_filehandle(
                               g.self, b, vfs1,
                               CHOOSE e \in parent_filehandle : TRUE),
                    res |-> {g.fh}]

\* handle_message(CreateFile): the file is created; a share reservation
\* with a new stateid is stored in lockdb and put on the copy of the fh
\* that is sent back.  The verifier of the request is not read.
CreateFile(self, b, vfs, path, client_id, owner, share_access, share_deny, verifier, clk) ==
  LET c == create_file(self, b, vfs, path, clk)
  IN IF c.res = {} \/ ~c.self.alive
       THEN c
       ELSE LET fh == CHOOSE e \in c.res : TRUE
                n == get_new_lockingstate_id(c.self)
                lock == new_shared_reservation(
                          fh.id, n.stateid, client_id, owner,
                          share_access, share_deny)
            IN [vfs |-> c.vfs,
                self |-> [n.self EXCEPT !.lockdb = @ \cup {lock}],
                res |-> {[fh EXCEPT !.locks = {lock}]}]

\* the bytes of the names of the exported tree: "a" stands for file1.txt
\* and "d" for dir1 of create_fake_fs, "b" and "c" for names of two bytes
\* and of one
filename(n) ==
  CASE n = "a" -> <<102, 105, 108, 101, 49, 46, 116, 120, 116>>
    [] n = "d" -> <<100, 105, 114, 49>>
    [] n = "b" -> <<98, 50>>
    [] OTHER -> <<99>>

\* VfsPath::read_dir: the names under a directory, in an order the file
\* system chooses
read_dir(vfs, path) ==
  LET names == {p[Len(p)] : p \in {q \in DOMAIN vfs :
                                     /\ q # RootPath
                                     /\ vfs[q].exists
                                     /\ parent(q) = path}}
  IN {d \in [1..Cardinality(names) -> names] :
        \A i, j \in DOMAIN d : d[i] = d[j] => i = j}

\* the seed of the cookie verifier: the names of the listing concatenated
RECURSIVE seed(_)
seed(fnames) ==
  IF fnames = << >> THEN << >>
  ELSE filename(Head(fnames)) \o seed(Tail(fnames))

\* the verifier that is compared with the one supplied: every
\* (len / 8 + 1)-th byte of the seed from the first on (step_by), not padded
sampled_cookieverf(fnames) ==
  LET bytes == seed(fnames)
      step == Len(bytes) \div 8 + 1
  IN [j \in 1..((Len(bytes) + step - 1) \div step) |->
        bytes[(j - 1) * step + 1]]

\* the verifier that is returned: the sampled one filled with zeroes to 8
\* bytes, all zeroes for an empty directory
padded_cookieverf(fnames) ==
  LET v == sampled_cookieverf(fnames)
  IN v \o [i \in 1..(8 - Len(v)) |-> 0]

\* An older rule for the entries a cookie selects: the index itself is
\* compared.
cookie_selects_index(i, cookie) ==
  i >= cookie

\* the entries a cookie selects: (i + 2) >= cookie for the entry of index i
cookie_selects(i, cookie) ==
  i + 2 >= cookie

\* the first loop of READDIR from index i on: an entry the cookie selects
\* adds 8 + name.len() + 5 to dircount_actual and 200 to maxcount_actual,
\* and is taken with cookie i + 3 if dircount is 0 or both budgets are
\* greater than the sums
RECURSIVE readdir_scan(_, _, _, _, _, _, _)
readdir_scan(fnames, i, cookie, dircount, maxcount, dircount_actual, maxcount_actual) ==
  IF i >= Len(fnames) THEN << >>
  ELSE LET name == fnames[i + 1]
           sel == cookie_selects(i, cookie)
           da == IF sel
                   THEN dircount_actual + 8 + Len(filename(name)) + 5
                   ELSE dircount_actual
           ma == IF sel THEN maxcount_actual + 200 ELSE maxcount_actual
           take == sel /\ (dircount = 0 \/ (dircount > da /\ maxcount > ma))
       IN (IF take THEN <<[cookie |-> i + 3, name |-> name]>> ELSE << >>)
            \o readdir_scan(fnames, i + 1, cookie, dircount, maxcount,
                            da, ma)

\* get_filehandle_for_path for every entry taken, in order: each gets its
\* fh from the file manager, which stores a new one where it has none
RECURSIVE readdir_filehandles(_, _, _, _, _)
readdir_filehandles(self, b, vfs, path, entries) ==
  IF entries = << >> THEN self
  ELSE readdir_filehandles(
         GetFilehandle_path(self, b, vfs,
                            Append(path, Head(entries).name)).self,
         b, vfs, path, Tail(entries))

\* get_filehandle_from_cache: the entry of the id and the cache it leaves;
\* an entry older than cache_ttl is dropped
get_filehandle_from_cache(cache, filehandle_id, clk) ==
  LET hit == {c \in cache : c.fh.id = filehandle_id}
  IN IF hit = {}
       THEN [cache |-> cache, res |-> {}]
       ELSE IF \E c \in hit : Now(clk) - c.time > CacheTtl
         THEN [cache |-> cache \ hit, res |-> {}]
         ELSE [cache |-> cache, res |-> {c.fh : c \in hit}]

\* cache_filehandle: HashMap::insert under the id of the fh
cache_filehandle(cache, fh, clk) ==
  {c \in cache : c.fh.id # fh.id}
    \cup {[time |-> Now(clk), fh |-> fh]}

\* drop_filehandle_from_cache
drop_filehandle_from_cache(cache, filehandle_id) ==
  {c \in cache : c.fh.id # filehandle_id}

\* ------------------------------------------------------------------------
\* Initial states
\* ------------------------------------------------------------------------

NoCall ==
  [type |-> None, principal |-> None, verifier |-> None, id |-> None,
   client_id |-> 0, setclientid_confirm |-> 0,
   ok |-> FALSE, nfs_error |-> None, entry |-> {},
   db |-> {}, seq |-> 0]

NoOp ==
  [op |-> None, id |-> None, verifier |-> None, clientid |-> 0, cookie |-> 0,
   status |-> None, some |-> FALSE,
   result |-> [op |-> None, status |-> None, clientid |-> 0, cookie |-> 0,
               object |-> NoFh],
   seen |-> NoFh, left |-> NoFh, prev_left |-> NoFh, first |-> FALSE,
   db |-> {}]

NoReply == [sent |-> FALSE, status |-> None, resarray |-> << >>]

\* ClientManager::new: an empty table, client_id_seq = 0
InitClientManager ==
  /\ db = {}
  /\ client_id_seq = 0
  /\ filehandles = << >>
  /\ drawn = {}
  /\ last_call = NoCall

\* ClientManagerHandle::new: an empty channel; no task has called yet
InitActor ==
  /\ mailbox = << >>
  /\ result = [t \in Tasks |-> "idle"]

\* no RENEW has been evaluated
NoRenew ==
  [op |-> None, clientid |-> 0, status |-> None, confirmed |-> FALSE,
   idle |-> 0]

\* NFSServer::start before the first accept
InitServer ==
  /\ serving = NoConn
  /\ pc = "accept"
  /\ nargs = 0
  /\ idx = 0
  /\ resarray = << >>
  /\ last_status = "NFS4_OK"
  /\ filehandle = NoFh
  /\ failed_at = 0
  /\ last_op = NoOp
  /\ reply = NoReply

\* no file operation has been evaluated
NoFs ==
  [op |-> None, status |-> None, result |-> None, stable |-> None,
   id |-> NoFh, path |-> RootPath, offset |-> 0,
   seen |-> {}, left |-> {}, hit |-> FALSE, found |-> FALSE, gone |-> FALSE,
   first |-> {}, prev |-> {}, pending |-> {}, content |-> << >>,
   stored_before |-> {}, stored_after |-> {},
   count |-> 0, data |-> << >>, after_sync |-> FALSE, cached |-> FALSE,
   how |-> None, verifier |-> {}, stateid |-> {}, locked |-> FALSE,
   open_stateid |-> {}, owner |-> {}, caller |-> {},
   was_dir |-> FALSE, touched |-> FALSE,
   cookie |-> 0, cookieverf |-> << >>, dircount |-> 0, maxcount |-> 0,
   dir |-> << >>, entries |-> << >>, eof |-> FALSE, reply_verf |-> << >>,
   continues |-> FALSE]

\* the exported tree before the server is constructed: the root directory
\* and two files written before boot; no file manager yet
InitFileManager ==
  /\ backend = None
  /\ fs = [p \in {RootPath} \cup Paths \cup Dirs \cup Created |->
             [exists |-> p \notin Created,
              content |-> IF p \in Paths THEN <<1>> ELSE << >>,
              modified |-> IF p \in Created THEN 0 ELSE BootTime]]
  /\ fmanager = [fhdb |-> {}, next_fh_id |-> FirstFhId, cachedb |-> {},
                 lockdb |-> {}, next_stateid_id |-> FirstStateId,
                 alive |-> FALSE]
  /\ write_caches = {}
  /\ request = [filehandle |-> {}, alive |-> TRUE]
  /\ filehandle_cache = {}
  /\ write_cache = << >>
  /\ handed = [p \in Paths |-> [first |-> {}, last |-> {}]]
  /\ unstable = {}
  /\ last_fs = NoFs

\* the clock at server start; no lease has been granted, no RENEW seen
InitLease ==
  /\ clock = 0
  /\ refreshed = [c \in ClientIds |-> 0]
  /\ last_renew = NoRenew

\* ------------------------------------------------------------------------
\* Record marking and the transport (src/src/proto/mod.rs, src/lib/src/lib.rs)
\* ------------------------------------------------------------------------

\* const MAX: the greatest length of a fragment, 8 * 1024 * 1024
MAX == 8388608

\* the fragments a client sends: the last-fragment bit and the length of
\* the header, and whether the bytes are those of a well-formed call; a
\* fragment longer than MAX is known by its header alone
Fragments ==
  [is_last : BOOLEAN, length : {1, MAX}, good : BOOLEAN]
    \cup {[is_last |-> TRUE, length |-> MAX + 1, good |-> FALSE]}

\* NFSProtoCodec::decode: the loop from the front of the buffer on, with
\* the length of message_data gathered so far and whether it is well-formed
\* so far; message_data starts empty on every call.
\* Fewer than 4 bytes: Ok(None).  A length above MAX: Err(InvalidData), the
\* header stays in the buffer.  A fragment not yet whole: Ok(None).  A whole
\* fragment is taken off the buffer and appended to message_data; after
\* the last one RpcCallMsg::from_bytes decides between Ok(Some) and Err.
RECURSIVE decode(_, _, _)
decode(buf, size, good) ==
  IF buf = << >> THEN [item |-> "None", src |-> buf, size |-> size]
  ELSE LET f == Head(buf)
       IN IF f.length > MAX
            THEN [item |-> "Err", src |-> buf, size |-> size]
          ELSE IF ~f.whole
            THEN [item |-> "None", src |-> buf, size |-> size]
          ELSE IF f.is_last
            THEN [item |-> IF good /\ f.good THEN "Ok" ELSE "Err",
                  src |-> Tail(buf), size |-> size + f.length]
          ELSE decode(Tail(buf), size + f.length, good /\ f.good)

\* ------------------------------------------------------------------------
\* Attribute bitmaps (src/proto/src/utils.rs, src/bold-lib/src/proto/utils.rs)
\* A bitmap is a sequence of 32-bit words; a word is written as the set of
\* the positions of its one bits.
\* ------------------------------------------------------------------------

\* the words a bitmap of the model has at most
MaxWords == 2

\* FileAttr::MountedOnFileid, the attribute with the highest number
MountedOnFileid == 55

\* the attributes the bitmaps of the model are made of
AttrSample == {0, 1, 30, 31, 32, MountedOnFileid}

\* segment += 2_u32.pow(k): the bit is set, a bit that is set carries
RECURSIVE add_pow(_, _)
add_pow(segment, k) ==
  IF k > 31 THEN segment
  ELSE IF k \in segment THEN add_pow(segment \ {k}, k + 1)
  ELSE segment \cup {k}

\* A mutation of the test of file_attrs_to_bitmap: no word is ever closed.
new_segment_never(attr_idx, len) ==
  FALSE

\* the test of file_attrs_to_bitmap that closes the word in progress:
\* (idx.div_ceil(31) as i16) - 1 > attrs.len() as i16
new_segment(attr_idx, len) ==
  ((attr_idx + 30) \div 31) - 1 > len

\* the loop of file_attrs_to_bitmap over the attribute numbers idxs, attrs
\* being the words closed so far
RECURSIVE bitmap_segments(_, _, _)
bitmap_segments(idxs, attrs, segment) ==
  IF idxs = << >> THEN Append(attrs, segment)
  ELSE LET attr_idx == Head(idxs)
           push == new_segment(attr_idx, Len(attrs))
       IN bitmap_segments(Tail(idxs),
                          IF push THEN Append(attrs, segment) ELSE attrs,
                          add_pow(IF push THEN {} ELSE segment,
                                  attr_idx % 32))

\* file_attrs_to_bitmap
file_attrs_to_bitmap(file_attrs) ==
  bitmap_segments(file_attrs, << >>, {})

\* read_attrs from bit k on: bit n of word idx is attribute idx * 32 + n,
\* kept if FileAttr has a variant of that number
RECURSIVE read_attrs_from(_, _)
read_attrs_from(attrs_raw, k) ==
  IF k >= 32 * Len(attrs_raw) THEN << >>
  ELSE (IF (k % 32) \in attrs_raw[(k \div 32) + 1] /\ k <= MountedOnFileid
          THEN <<k>> ELSE << >>)
         \o read_attrs_from(attrs_raw, k + 1)

\* read_attrs
read_attrs(attrs_raw) ==
  read_attrs_from(attrs_raw, 0)

\* the bitmaps of n words over the attributes of the model
RECURSIVE BitmapsOf(_)
BitmapsOf(n) ==
  IF n = 0 THEN {<< >>}
  ELSE {Append(b, w) :
          b \in BitmapsOf(n - 1),
          w \in SUBSET {a % 32 : a \in {x \in AttrSample :
                                          x \div 32 = n - 1}}}

NoMask == [step |-> None, raw |-> << >>, attrs |-> << >>, bitmap |-> << >>]

\* the peers that connect to the listener
Peers == {"127.0.0.1:790", "127.0.0.1:791", "127.0.0.1:792"}

\* TcpListener::bind: nobody has connected
TcpListener_bind == [backlog |-> << >>, accepted |-> {}, unread |-> {}]

\* Framed::new on an accepted stream: nothing read, nothing sent
Framed_new ==
  [state |-> "open", eof |-> FALSE, sent |-> << >>, item |-> "None",
   size |-> 0, advanced |-> FALSE]

Init ==
  /\ InitClientManager
  /\ InitActor
  /\ InitServer
  /\ InitLease
  /\ InitFileManager
  /\ src = << >>
  /\ transport = Framed_new
  /\ attrmask = NoMask
  /\ listener = TcpListener_bind

\* ------------------------------------------------------------------------
\* SpecCM: the ClientManager called directly, as its unit tests call it,
\* with any principal
\* ------------------------------------------------------------------------

\* the record of a call: its arguments, its outcome, the table before it
Call(type, principal, verifier, id, client_id, cookie, res) ==
  [type |-> type, principal |-> principal, verifier |-> verifier, id |-> id,
   client_id |-> client_id, setclientid_confirm |-> cookie,
   ok |-> res.ok, nfs_error |-> res.nfs_error,
   entry |-> IF res.ok THEN {res.entry} ELSE {},
   db |-> db, seq |-> client_id_seq]

\* ClientManager::upsert_client(verifier, id, callback, principal)
UpsertClient(verifier, id, principal) ==
  /\ drawn # Cookies
  /\ \E out \in upsert_client(db, client_id_seq, verifier, id, principal,
                              NewCookie(drawn)) :
       /\ db' = out.db
       /\ client_id_seq' = out.seq
       /\ drawn' = IF out.res.ok THEN drawn \cup {NewCookie(drawn)} ELSE drawn
       /\ last_call' = Call("UpsertClient", principal, verifier, id, 0, 0,
                            out.res)
  /\ UNCHANGED <<filehandles, actorvars, wirevars, connvars, leasevars, fmvars>>

\* ClientManager::confirm_client(client_id, setclientid_confirm, principal)
ConfirmClient(client_id, cookie, principal) ==
  /\ \E out \in confirm_client(db, client_id, cookie, principal) :
       /\ db' = out.db
       /\ last_call' = Call("ConfirmClient", principal, None, None, client_id,
                            cookie, out.res)
  /\ UNCHANGED <<client_id_seq, filehandles, drawn, actorvars, wirevars, connvars, leasevars, fmvars>>

NextCM ==
  \/ \E verifier \in Verifiers, id \in Ids, principal \in Principals :
       UpsertClient(verifier, id, principal)
  \/ \E client_id \in ClientIds, cookie \in Cookies, principal \in Principals :
       ConfirmClient(client_id, cookie, principal)

SpecCM == Init /\ [][NextCM]_vars

\* ------------------------------------------------------------------------
\* SpecActor: the ClientManager actor behind its mailbox, called by several
\* tasks through clones of the handle, with principal None as the
\* operations call it
\* ------------------------------------------------------------------------

UpsertClientRequest(t, verifier, id, principal) ==
  [type |-> "UpsertClient", respond_to |-> t, verifier |-> verifier,
   id |-> id, principal |-> principal, client_id |-> 0,
   setclientid_confirm |-> 0]

ConfirmClientRequest(t, client_id, cookie, principal) ==
  [type |-> "ConfirmClient", respond_to |-> t, verifier |-> None,
   id |-> None, principal |-> principal, client_id |-> client_id,
   setclientid_confirm |-> cookie]

\* upserts queued in the mailbox
QueuedUpserts ==
  Cardinality({i \in 1..Len(mailbox) : mailbox[i].type = "UpsertClient"})

\* ClientManagerHandle::upsert_client up to the await on the reply channel:
\* the request is queued (a task has one call in flight, so the channel of
\* 16 never fills).  The generator is capped at MaxCookie values.
SendUpsertClient(t) ==
  /\ result[t] = "idle"
  /\ Cardinality(drawn) + QueuedUpserts < MaxCookie
  /\ \E verifier \in Verifiers, id \in Ids :
       mailbox' = Append(mailbox, UpsertClientRequest(t, verifier, id, None))
  /\ result' = [result EXCEPT ![t] = "pending"]
  /\ UNCHANGED <<cmvars, last_call, wirevars, connvars, leasevars, fmvars>>

\* ClientManagerHandle::confirm_client up to the await on the reply channel
SendConfirmClient(t) ==
  /\ result[t] = "idle"
  /\ \E client_id \in ClientIds, cookie \in Cookies :
       mailbox' = Append(mailbox,
                         ConfirmClientRequest(t, client_id, cookie, None))
  /\ result' = [result EXCEPT ![t] = "pending"]
  /\ UNCHANGED <<cmvars, last_call, wirevars, connvars, leasevars, fmvars>>

\* run_client_manager and handle_message, UpsertClient arm: the head of the
\* mailbox is processed to completion and answered on respond_to
HandleUpsertClient ==
  /\ mailbox # << >>
  /\ Head(mailbox).type = "UpsertClient"
  /\ LET msg == Head(mailbox)
     IN \E out \in upsert_client(db, client_id_seq, msg.verifier, msg.id,
                                 msg.principal, NewCookie(drawn)) :
          /\ db' = out.db
          /\ client_id_seq' = out.seq
          /\ drawn' = IF out.res.ok THEN drawn \cup {NewCookie(drawn)}
                                    ELSE drawn
          /\ result' = [result EXCEPT ![msg.respond_to] = "idle"]
  /\ mailbox' = Tail(mailbox)
  /\ UNCHANGED <<filehandles, last_call, wirevars, connvars, leasevars, fmvars>>

\* handle_message, ConfirmClient arm
HandleConfirmClient ==
  /\ mailbox # << >>
  /\ Head(mailbox).type = "ConfirmClient"
  /\ LET msg == Head(mailbox)
     IN \E out \in confirm_client(db, msg.client_id, msg.setclientid_confirm,
                                  msg.principal) :
          /\ db' = out.db
          /\ result' = [result EXCEPT ![msg.respond_to] = "idle"]
  /\ mailbox' = Tail(mailbox)
  /\ UNCHANGED <<client_id_seq, filehandles, drawn, last_call, wirevars, connvars, leasevars, fmvars>>

NextActor ==
  \/ \E t \in Tasks : SendUpsertClient(t)
  \/ \E t \in Tasks : SendConfirmClient(t)
  \/ HandleUpsertClient
  \/ HandleConfirmClient

SpecActor == Init /\ [][NextActor]_vars

\* ------------------------------------------------------------------------
\* Spec: the server.  NFSServer::start serves the accepted connection inside
\* the accept loop, so one connection is served at a time and a COMPOUND
\* runs to its reply before the next record is read.
\* ------------------------------------------------------------------------

\* NfsArgOp: one entry of the argarray
NfsArgOp(op, id, verifier, clientid, cookie) ==
  [op |-> op, id |-> id, verifier |-> verifier, clientid |-> clientid,
   cookie |-> cookie]

\* NfsResOp4: one entry of the resarray
NfsResOp4(op, status, clientid, cookie, object) ==
  [op |-> op, status |-> status, clientid |-> clientid, cookie |-> cookie,
   object |-> object]

\* NfsOpResponse {request, result, status}; of the request, the current
\* filehandle is what an operation can change
NfsOpResponse(fh, some, res, status) ==
  [fh |-> fh, some |-> some, result |-> res, status |-> status]

\* result: None
NoResult == NfsResOp4(None, None, 0, 0, NoFh)

\* A mutation of NfsRequest::new: the filehandle the client manager recorded
\* for the client address at the end of the previous request is restored.
NfsRequest_restore(client_addr, fhs) ==
  IF client_addr \in DOMAIN fhs THEN fhs[client_addr] ELSE NoFh

\* NfsRequest::new: filehandle_id: None
NfsRequest_new(client_addr, fhs) == NoFh

\* NfsRequest::close: the current filehandle, when set, is sent to the
\* client manager (SetCurrentFilehandle)
NfsRequest_close(fhs, client_addr, fh) ==
  IF fh # NoFh THEN set_current_fh(fhs, client_addr, fh) ELSE fhs

\* NFS40Server::put_root_filehandle: the file manager mints the root
\* filehandle on first use and always returns it
put_root_filehandle(fh) ==
  NfsOpResponse(RootFhId, TRUE,
                NfsResOp4("PUTROOTFH", "NFS4_OK", 0, 0, NoFh), "NFS4_OK")

\* NFS40Server::get_current_filehandle
get_current_filehandle(fh) ==
  IF fh # NoFh
    THEN NfsOpResponse(fh, TRUE, NfsResOp4("GETFH", "NFS4_OK", 0, 0, fh),
                       "NFS4_OK")
    ELSE NfsOpResponse(fh, FALSE, NoResult, "NFS4ERR_SERVERFAULT")

\* NFS40Server::operation_not_supported
operation_not_supported(fh) ==
  NfsOpResponse(fh, FALSE, NoResult, "NFS4ERR_NOTSUPP")

\* SetClientId4args::execute, after upsert_client returned res
SetClientId4args_execute(fh, res) ==
  IF res.ok
    THEN NfsOpResponse(fh, TRUE,
                       NfsResOp4("SETCLIENTID", "NFS4_OK", res.entry.clientid,
                                 res.entry.setclientid_confirm, NoFh),
                       "NFS4_OK")
    ELSE NfsOpResponse(fh, FALSE, NoResult, "NFS4ERR_SERVERFAULT")

\* A mutation of SetClientIdConfirm4args::execute: every error of the client
\* manager is reported as SERVERFAULT.
SetClientIdConfirm4args_fault(fh, res) ==
  IF res.ok
    THEN NfsOpResponse(fh, TRUE,
                       NfsResOp4("SETCLIENTID_CONFIRM", "NFS4_OK", 0, 0, NoFh),
                       "NFS4_OK")
    ELSE NfsOpResponse(fh, FALSE, NoResult, "NFS4ERR_SERVERFAULT")

\* SetClientIdConfirm4args::execute, after confirm_client returned res
SetClientIdConfirm4args_execute(fh, res) ==
  IF res.ok
    THEN NfsOpResponse(fh, TRUE,
                       NfsResOp4("SETCLIENTID_CONFIRM", "NFS4_OK", 0, 0, NoFh),
                       "NFS4_OK")
    ELSE NfsOpResponse(fh, FALSE, NoResult, res.nfs_error)

\* A mutation of renew_leases: the renewed record falls back to unconfirmed.
renew_leases_unconfirm(d, clientid) ==
  IF get_client_confirmed(d, clientid) = {}
    THEN [db |-> d, res |-> ClientManagerError("NFS4ERR_STALE_CLIENTID")]
    ELSE [db |-> {IF e.clientid = clientid
                    THEN [e EXCEPT !.confirmed = FALSE] ELSE e : e \in d},
          res |-> [ok |-> TRUE, entry |-> None, nfs_error |-> "NFS4_OK"]]

\* ClientManagerHandle::renew_leases (RenewLease of the Client Manager): no
\* confirmed record for the clientid is STALE_CLIENTID, otherwise the lease
\* is refreshed
renew_leases(d, clientid) ==
  IF get_client_confirmed(d, clientid) = {}
    THEN [db |-> d, res |-> ClientManagerError("NFS4ERR_STALE_CLIENTID")]
    ELSE [db |-> d,
          res |-> [ok |-> TRUE, entry |-> None, nfs_error |-> "NFS4_OK"]]

\* Renew4args::execute, after renew_leases returned res
Renew4args_execute(fh, res) ==
  IF res.ok
    THEN NfsOpResponse(fh, TRUE, NfsResOp4("RENEW", "NFS4_OK", 0, 0, NoFh),
                       "NFS4_OK")
    ELSE NfsOpResponse(fh, TRUE, NfsResOp4("RENEW", res.nfs_error, 0, 0, NoFh),
                       res.nfs_error)

\* A mutation of the loop of compound: evaluation goes on after a non-OK
\* status.
compound_loop_goon(resarr, response, more) ==
  [resarray |-> IF response.some THEN Append(resarr, response.result)
                                 ELSE resarr,
   stop |-> ~more]

\* A mutation of the loop of compound: the reply to a failed operation
\* carries an empty resarray (as in src/src/server/nfs40/mod.rs).
compound_loop_empty(resarr, response, more) ==
  IF ~response.some
    THEN [resarray |-> resarr, stop |-> TRUE]
    ELSE IF response.status # "NFS4_OK"
      THEN [resarray |-> << >>, stop |-> TRUE]
      ELSE [resarray |-> Append(resarr, response.result), stop |-> ~more]

\* the tail of the loop body of NFS40Server::compound: a response without a
\* result breaks out of the loop, a result is pushed, a non-OK status
\* returns the reply; `more` says whether the argarray has a next entry
compound_loop(resarr, response, more) ==
  IF ~response.some
    THEN [resarray |-> resarr, stop |-> TRUE]
    ELSE IF response.status # "NFS4_OK"
      THEN [resarray |-> Append(resarr, response.result), stop |-> TRUE]
      ELSE [resarray |-> Append(resarr, response.result), stop |-> ~more]

\* listener.accept(): the next connection is served
Accept(c) ==
  /\ pc = "accept"
  /\ serving' = c
  /\ pc' = "idle"
  /\ UNCHANGED <<cmvars, actorvars, wirevars, leasevars, fmvars, last_call, nargs, idx, resarray,
                 last_status, filehandle, failed_at, last_op, reply>>

\* nfs_transport.next() returns None: the client closed the connection
Disconnect ==
  /\ pc = "idle"
  /\ serving' = NoConn
  /\ pc' = "accept"
  /\ nargs' = 0
  /\ idx' = 0
  /\ resarray' = << >>
  /\ last_status' = "NFS4_OK"
  /\ filehandle' = NoFh
  /\ failed_at' = 0
  /\ last_op' = NoOp
  /\ reply' = NoReply
  /\ UNCHANGED <<cmvars, actorvars, wirevars, leasevars, fmvars, last_call>>

\* a COMPOUND call of n operations is read: NfsRequest::new, and compound
\* starts with last_status = OK and an empty resarray
Receive(n) ==
  /\ pc = "idle"
  /\ nargs' = n
  /\ idx' = 0
  /\ resarray' = << >>
  /\ last_status' = "NFS4_OK"
  /\ filehandle' = NfsRequest_new(serving, filehandles)
  /\ failed_at' = 0
  /\ last_op' = NoOp
  /\ reply' = NoReply
  /\ pc' = IF n = 0 THEN "done" ELSE "compound"
  /\ UNCHANGED <<cmvars, actorvars, wirevars, leasevars, fmvars, last_call, serving>>

\* the loop body of compound for the next entry arg of the argarray, the
\* handler having returned response
Evaluate(arg, response) ==
  LET out == compound_loop(resarray, response, idx + 1 < nargs)
  IN /\ resarray' = out.resarray
     /\ last_status' = response.status
     /\ filehandle' = response.fh
     /\ idx' = idx + 1
     /\ pc' = IF out.stop THEN "done" ELSE "compound"
     /\ failed_at' = IF failed_at = 0 /\ response.status # "NFS4_OK"
                       THEN idx + 1 ELSE failed_at
     /\ last_op' =
          [op |-> arg.op, id |-> arg.id, verifier |-> arg.verifier,
           clientid |-> arg.clientid, cookie |-> arg.cookie,
           status |-> response.status, some |-> response.some,
           result |-> response.result, seen |-> filehandle, left |-> response.fh,
           prev_left |-> IF idx = 0 THEN NoFh ELSE last_op.left,
           first |-> (idx = 0), db |-> db]
     /\ UNCHANGED <<serving, nargs, reply, actorvars, wirevars, leasevars, last_call>>

\* NfsArgOp::Opputrootfh
OpPutRootFh ==
  /\ pc = "compound"
  /\ Evaluate(NfsArgOp("PUTROOTFH", None, None, 0, 0),
              put_root_filehandle(filehandle))
  /\ UNCHANGED <<cmvars, fmvars>>

\* NfsArgOp::Opgetfh
OpGetFh ==
  /\ pc = "compound"
  /\ Evaluate(NfsArgOp("GETFH", None, None, 0, 0),
              get_current_filehandle(filehandle))
  /\ UNCHANGED <<cmvars, fmvars>>

\* NfsArgOp::Opsavefh and the other operations the server does not implement
OpNotSupported ==
  /\ pc = "compound"
  /\ Evaluate(NfsArgOp("SAVEFH", None, None, 0, 0),
              operation_not_supported(filehandle))
  /\ UNCHANGED <<cmvars, fmvars>>

\* NfsArgOp::Opsetclientid: upsert_client with principal None
OpSetClientId(id, verifier) ==
  /\ pc = "compound"
  /\ drawn # Cookies
  /\ \E out \in upsert_client(db, client_id_seq, verifier, id, None,
                              NewCookie(drawn)) :
       /\ db' = out.db
       /\ client_id_seq' = out.seq
       /\ drawn' = IF out.res.ok THEN drawn \cup {NewCookie(drawn)} ELSE drawn
       /\ Evaluate(NfsArgOp("SETCLIENTID", id, verifier, 0, 0),
                   SetClientId4args_execute(filehandle, out.res))
  /\ UNCHANGED <<filehandles, fmvars>>

\* NfsArgOp::OpsetclientidConfirm: confirm_client with principal None
OpSetClientIdConfirm(clientid, cookie) ==
  /\ pc = "compound"
  /\ \E out \in confirm_client(db, clientid, cookie, None) :
       /\ db' = out.db
       /\ Evaluate(NfsArgOp("SETCLIENTID_CONFIRM", None, None, clientid, cookie),
                   SetClientIdConfirm4args_execute(filehandle, out.res))
  /\ UNCHANGED <<client_id_seq, filehandles, drawn, fmvars>>

\* NfsArgOp::Oprenew
OpRenew(clientid) ==
  /\ pc = "compound"
  /\ LET out == renew_leases(db, clientid)
     IN /\ db' = out.db
        /\ Evaluate(NfsArgOp("RENEW", None, None, clientid, 0),
                    Renew4args_execute(filehandle, out.res))
  /\ UNCHANGED <<client_id_seq, filehandles, drawn, fmvars>>

\* compound returns and NFSService::call ends the request: request.close(),
\* then the reply is written to the connection
Reply ==
  /\ pc = "done"
  /\ filehandles' = NfsRequest_close(filehandles, serving, filehandle)
  /\ reply' = [sent |-> TRUE, status |-> last_status, resarray |-> resarray]
  /\ pc' = "idle"
  /\ UNCHANGED <<db, client_id_seq, drawn, actorvars, wirevars, leasevars, fmvars, last_call, serving,
                 nargs, idx, resarray, last_status, filehandle, failed_at,
                 last_op>>

Next ==
  \/ \E c \in Conns : Accept(c)
  \/ Disconnect
  \/ \E n \in 0..MaxOps : Receive(n)
  \/ OpPutRootFh
  \/ OpGetFh
  \/ OpNotSupported
  \/ \E id \in Ids, verifier \in Verifiers : OpSetClientId(id, verifier)
  \/ \E clientid \in ClientIds, cookie \in Cookies :
       OpSetClientIdConfirm(clientid, cookie)
  \/ \E clientid \in ClientIds : OpRenew(clientid)
  \/ Reply

Spec == Init /\ [][Next]_vars

\* ------------------------------------------------------------------------
\* SpecLease: the client operations against the wall clock.  The client
\* table stores no time and the Client Manager handles no timer message, so
\* the passing of time changes nothing but the clock.
\* ------------------------------------------------------------------------

\* lease_time: 60 seconds
LeaseTime == 60

\* time passes
Tick ==
  /\ clock + TickSeconds <= MaxClock
  /\ clock' = clock + TickSeconds
  /\ UNCHANGED <<cmvars, actorvars, wirevars, last_call, connvars, refreshed,
                 last_renew, fmvars>>

\* SETCLIENTID: SetClientId4args::execute
LeaseSetClientId(id, verifier) ==
  /\ drawn # Cookies
  /\ \E out \in upsert_client(db, client_id_seq, verifier, id, None,
                               NewCookie(drawn)) :
       /\ db' = out.db
       /\ client_id_seq' = out.seq
       /\ drawn' = drawn \cup {NewCookie(drawn)}
  /\ UNCHANGED <<filehandles, actorvars, wirevars, last_call, connvars, leasevars,
                 fmvars>>

\* SETCLIENTID_CONFIRM: SetClientIdConfirm4args::execute; a confirmed client
\* holds a lease from now on
LeaseSetClientIdConfirm(clientid, cookie) ==
  /\ \E out \in confirm_client(db, clientid, cookie, None) :
       /\ db' = out.db
       /\ refreshed' = IF out.res.ok
                         THEN [refreshed EXCEPT ![clientid] = clock]
                         ELSE refreshed
  /\ UNCHANGED <<client_id_seq, filehandles, drawn, actorvars, wirevars, last_call,
                 connvars, clock, last_renew, fmvars>>

\* RENEW: Renew4args::execute
LeaseRenew(clientid) ==
  /\ LET out == renew_leases(db, clientid)
         response == Renew4args_execute(NoFh, out.res)
     IN /\ db' = out.db
        /\ last_renew' =
             [op |-> "RENEW", clientid |-> clientid,
              status |-> response.status,
              confirmed |-> (get_client_confirmed(db, clientid) # {}),
              idle |-> clock - refreshed[clientid]]
        /\ refreshed' = IF out.res.ok
                          THEN [refreshed EXCEPT ![clientid] = clock]
                          ELSE refreshed
  /\ UNCHANGED <<client_id_seq, filehandles, drawn, actorvars, wirevars, last_call,
                 connvars, clock, fmvars>>

NextLease ==
  \/ Tick
  \/ \E id \in Ids, verifier \in Verifiers : LeaseSetClientId(id, verifier)
  \/ \E clientid \in ClientIds, cookie \in Cookies :
       LeaseSetClientIdConfirm(clientid, cookie)
  \/ \E clientid \in ClientIds : LeaseRenew(clientid)

SpecLease == Init /\ [][NextLease]_vars

\* ------------------------------------------------------------------------
\* SpecFM and SpecIO: the file operations of one connection against the
\* File Manager, the write caches and the backing VFS, which other programs
\* change too
\* ------------------------------------------------------------------------

\* the server is constructed and none of its tasks has panicked
Running == backend # None /\ fmanager.alive /\ request.alive

\* the records the table holds for an id, as a set
stored(self, id) == get_by_id(self.fhdb, id)

\* the history of LOOKUP results after a message: a path that had a record
\* and has none any more starts afresh
forget_dropped(h, before, after) ==
  [p \in Paths |->
     IF get_filehandle_by_path(before, p) # {}
          /\ get_filehandle_by_path(after, p) = {}
       THEN [h[p] EXCEPT !.last = {}]
       ELSE h[p]]

\* NFSServer::new and FileManager::new over a root on file system b: an
\* empty table that the root fh is put into at once
FileManager_new(b) ==
  /\ backend = None
  /\ backend' = b
  /\ fmanager' =
       get_filehandle([fhdb |-> {}, next_fh_id |-> FirstFhId,
                       cachedb |-> {}, lockdb |-> {},
                       next_stateid_id |-> FirstStateId,
                       alive |-> TRUE], b, fs, RootPath).self
  /\ UNCHANGED <<fs, write_caches, request, filehandle_cache, write_cache,
                 handed, unstable, last_fs>>
  /\ UNCHANGED <<cmvars, actorvars, wirevars, last_call, connvars, leasevars>>

\* NfsRequest::new: the next COMPOUND of the connection starts without a
\* current fh
NewRequest ==
  /\ Running
  /\ request.filehandle # {}
  /\ request' = [request EXCEPT !.filehandle = {}]
  /\ last_fs' = [NoFs EXCEPT !.op = "NEW", !.seen = request.filehandle]
  /\ UNCHANGED <<backend, fs, fmanager, write_caches, filehandle_cache,
                 write_cache, handed, unstable>>
  /\ UNCHANGED <<cmvars, actorvars, wirevars, last_call, connvars, leasevars>>

\* PUTFH: PutFh4args::execute.  A cache entry not older than cache_ttl is
\* taken as it is; else the file manager is asked, its fh is set and
\* cached, or STALE is returned with the current fh left alone.
PutFh(object) ==
  /\ Running
  /\ LET c == get_filehandle_from_cache(filehandle_cache, object, clock)
         g == GetFilehandle_id(fmanager, fs, object)
         copies == {k.fh : k \in filehandle_cache} \cup fmanager.fhdb
         status == IF c.res # {} \/ g.res # {}
                     THEN "NFS4_OK" ELSE "NFS4ERR_STALE"
     IN /\ IF c.res # {}
             THEN /\ request' = [request EXCEPT !.filehandle = c.res]
                  /\ filehandle_cache' = c.cache
                  /\ UNCHANGED <<fmanager, handed>>
             ELSE /\ fmanager' = g.self
                  /\ handed' = forget_dropped(handed, fmanager, g.self)
                  /\ IF g.res # {}
                       THEN /\ request' = [request EXCEPT !.filehandle = g.res]
                            /\ filehandle_cache' =
                                 cache_filehandle(
                                   c.cache, CHOOSE e \in g.res : TRUE, clock)
                       ELSE /\ request' = request
                            /\ filehandle_cache' = c.cache
        /\ last_fs' =
             [NoFs EXCEPT !.op = "PUTFH", !.status = status, !.id = object,
                          !.seen = request.filehandle,
                          !.left = request'.filehandle,
                          !.hit = (c.res # {}),
                          !.found = (g.res # {}),
                          !.gone = (\E e \in copies :
                                      e.id = object /\ ~Exists(fs, e.path)),
                          !.stored_before = stored(fmanager, object),
                          !.stored_after = stored(fmanager', object)]
  /\ UNCHANGED <<backend, fs, write_caches, write_cache, unstable>>
  /\ UNCHANGED <<cmvars, actorvars, wirevars, last_call, connvars, leasevars>>

\* LOOKUP: Lookup4args::execute.  The name is joined to the path of the
\* current fh and the file manager is asked for the path; its
\* fh becomes the current one, an error clears the current one.
Lookup(objname) ==
  /\ Running
  /\ IF request.filehandle = {}
       THEN /\ last_fs' = [NoFs EXCEPT !.op = "LOOKUP",
                                       !.status = "NFS4ERR_FHEXPIRED"]
            /\ UNCHANGED <<fmanager, request, handed>>
       ELSE LET fh == CHOOSE e \in request.filehandle : TRUE
                path == Append(fh.path, objname)
                g == GetFilehandle_path(fmanager, backend, fs, path)
                status == send_filehandle_request(g.res # {}, TRUE, FALSE)
                h == forget_dropped(handed, fmanager, g.self)
            IN /\ get_filehandle_by_path(fmanager, path) = {}
                    => fmanager.next_fh_id < FirstFhId + MaxMint
               /\ fmanager' = g.self
               /\ request' =
                    [request EXCEPT
                       !.filehandle = IF g.self.alive THEN g.res ELSE {}]
               /\ handed' =
                    IF g.res # {} /\ g.self.alive /\ path \in Paths
                      THEN [h EXCEPT
                              ![path] =
                                [first |-> IF @.first = {}
                                             THEN {e.id : e \in g.res}
                                             ELSE @.first,
                                 last |-> {e.id : e \in g.res}]]
                      ELSE h
               /\ last_fs' =
                    [NoFs EXCEPT
                       !.op = "LOOKUP",
                       !.status = IF g.self.alive
                                    THEN status ELSE "NFS4ERR_SERVERFAULT",
                       !.path = path,
                       !.id = IF g.res # {}
                                THEN (CHOOSE e \in g.res : TRUE).id ELSE NoFh,
                       !.seen = request.filehandle,
                       !.left = request'.filehandle,
                       !.found = Exists(fs, path),
                       !.first = IF path \in Paths
                                   THEN handed[path].first ELSE {},
                       !.prev = IF path \in Paths
                                  THEN h[path].last ELSE {}]
  /\ UNCHANGED <<backend, fs, write_caches, filehandle_cache, write_cache,
                 unstable>>
  /\ UNCHANGED <<cmvars, actorvars, wirevars, last_call, connvars, leasevars>>

\* WriteCache::handle_message(Write) of the actors a handle leads to:
\* seek, write_all, changed = true
WriteCache_write(caches, handle, offset, data) ==
  {IF w.serial \in handle
     THEN [w EXCEPT !.filelike = WriteAt(@, offset, data), !.changed = TRUE]
     ELSE w : w \in caches}

\* the handle cachedb holds for a filehandle id; listed marks the actor
\* it leads to
registered(self, caches, id) ==
  IF id \in self.cachedb
    THEN {w.serial : w \in {x \in caches : x.id = id /\ x.listed}}
    ELSE {}

\* the serial of the next actor spawned
next_serial(caches) ==
  IF caches = {} THEN 1
  ELSE 1 + (CHOOSE n \in {w.serial : w \in caches} :
              \A w \in caches : w.serial <= n)

\* WRITE with stable = UNSTABLE4: the bytes go to the write cache of the
\* fh, which is taken from the fh or asked of the file
\* manager with the copy the request holds
WriteUnstable(offset) ==
  /\ Running
  /\ request.filehandle # {}
  /\ LET fh == CHOOSE e \in request.filehandle : TRUE
         serial == next_serial(write_caches)
         self == IF fh.write_cache # {}
                   THEN fmanager
                   ELSE get_cache_handle(fmanager, fs, fh, serial)
         spawned == fh.write_cache = {}
                      /\ fh.id \notin fmanager.cachedb
                      /\ self.alive
         caches == IF spawned
                     THEN write_caches \cup {WriteCache_new(fs, fh, serial)}
                     ELSE write_caches
         handle == IF fh.write_cache # {}
                     THEN fh.write_cache
                     ELSE registered(self, caches, fh.id)
     IN /\ fmanager' = self
        /\ handed' = forget_dropped(handed, fmanager, self)
        /\ request' = [request EXCEPT !.alive = self.alive]
        /\ filehandle_cache' =
             IF fh.write_cache # {} \/ ~self.alive
               THEN filehandle_cache
               ELSE drop_filehandle_from_cache(filehandle_cache,
                                               fh.id)
        /\ write_caches' =
             IF self.alive
               THEN WriteCache_write(caches, handle, offset, WriteData)
               ELSE write_caches
        /\ unstable' =
             IF self.alive
               THEN unstable \cup {[id |-> fh.id,
                                    path |-> fh.path,
                                    offset |-> offset]}
               ELSE unstable
        /\ last_fs' =
             [NoFs EXCEPT !.op = "WRITE", !.stable = "UNSTABLE4",
                          !.status = IF self.alive THEN "NFS4_OK" ELSE "panic",
                          !.id = fh.id, !.path = fh.path,
                          !.offset = offset,
                          !.seen = request.filehandle,
                          !.left = request.filehandle,
                          !.cached = /\ self.alive
                                     /\ handle # {}
                                     /\ handle =
                                          registered(self, caches, fh.id),
                          !.stored_before = stored(fmanager, fh.id),
                          !.stored_after = stored(self, fh.id)]
  /\ UNCHANGED <<backend, fs, write_cache>>
  /\ UNCHANGED <<cmvars, actorvars, wirevars, last_call, connvars, leasevars>>

\* WRITE with any other stable: the file is opened for append, the bytes
\* are written at the offset and flushed, the fh is touched
WriteFileSync(offset) ==
  /\ Running
  /\ request.filehandle # {}
  /\ LET fh == CHOOSE e \in request.filehandle : TRUE
         present == IsFile(fs, fh.path)
         vfs == IF present
                  THEN append_write(backend, fs, fh.path, offset,
                                    WriteData, clock)
                  ELSE fs
         self == IF present
                   THEN TouchFile(fmanager, backend, vfs, fh.id)
                   ELSE fmanager
     IN /\ \A e \in stored(fmanager, fh.id) : e.version < MaxVersion
        /\ present => Len(vfs[fh.path].content) <= MaxLen
        /\ fs' = vfs
        /\ fmanager' = self
        /\ handed' = forget_dropped(handed, fmanager, self)
        /\ request' = [request EXCEPT !.alive = present]
        /\ last_fs' =
             [NoFs EXCEPT !.op = "WRITE", !.stable = "FILE_SYNC4",
                          !.status = IF present THEN "NFS4_OK" ELSE "panic",
                          !.id = fh.id, !.path = fh.path,
                          !.offset = offset,
                          !.seen = request.filehandle,
                          !.left = request.filehandle,
                          !.stored_before = stored(fmanager, fh.id),
                          !.stored_after = stored(self, fh.id)]
  /\ UNCHANGED <<backend, write_caches, filehandle_cache, write_cache,
                 unstable>>
  /\ UNCHANGED <<cmvars, actorvars, wirevars, last_call, connvars, leasevars>>

\* WRITE without a current fh
WriteNoFilehandle ==
  /\ Running
  /\ request.filehandle = {}
  /\ last_fs.op # "WRITE"
  /\ last_fs' = [NoFs EXCEPT !.op = "WRITE", !.status = "NFS4ERR_FHEXPIRED"]
  /\ UNCHANGED <<backend, fs, fmanager, write_caches, request,
                 filehandle_cache, write_cache, handed, unstable>>
  /\ UNCHANGED <<cmvars, actorvars, wirevars, last_call, connvars, leasevars>>

\* File::read_exact into a buffer of count zeroes, its error ignored: the
\* bytes of the file from offset, zeroes where the file has ended
read_exact(content, offset, count) ==
  [i \in 1..count |->
     IF offset + i <= Len(content) THEN content[offset + i] ELSE 0]

\* READ: Read4args::execute.  The file of the current fh is opened, read
\* from offset into a buffer of count bytes and the buffer returned with
\* eof = true.  A directory opens on PhysicalFS and reads nothing; open_file
\* of a directory on MemoryFS, or of a file that is gone, panics.
Read(offset, count) ==
  /\ Running
  /\ IF request.filehandle = {}
       THEN /\ last_fs.op # "READ"
            /\ last_fs' = [NoFs EXCEPT !.op = "READ",
                                       !.status = "NFS4ERR_FHEXPIRED"]
            /\ UNCHANGED request
       ELSE LET fh == CHOOSE e \in request.filehandle : TRUE
                opens == \/ IsFile(fs, fh.path)
                         \/ backend = "PhysicalFS" /\ Exists(fs, fh.path)
                content == IF IsFile(fs, fh.path)
                             THEN fs[fh.path].content ELSE << >>
            IN /\ request' = [request EXCEPT !.alive = opens]
               /\ last_fs' =
                    [NoFs EXCEPT
                       !.op = "READ",
                       !.status = IF opens THEN "NFS4_OK" ELSE "panic",
                       !.id = fh.id, !.path = fh.path,
                       !.offset = offset, !.count = count,
                       !.seen = request.filehandle,
                       !.left = request.filehandle,
                       !.data = IF opens
                                  THEN read_exact(content, offset, count)
                                  ELSE << >>,
                       !.after_sync =
                          /\ last_fs.op = "WRITE"
                          /\ last_fs.stable = "FILE_SYNC4"
                          /\ last_fs.status = "NFS4_OK"
                          /\ last_fs.id = fh.id
                          /\ last_fs.offset = offset
                          /\ count = Len(WriteData)]
  /\ UNCHANGED <<backend, fs, fmanager, write_caches, filehandle_cache,
                 write_cache, handed, unstable>>
  /\ UNCHANGED <<cmvars, actorvars, wirevars, last_call, connvars, leasevars>>

\* NfsRequest::write_cache_commit: the cursor of the connection is written
\* to the file opened for append, from offset 0, and cleared
write_cache_commit(b, vfs, path, cursor, clk) ==
  IF Len(cursor) > 0
    THEN append_write(b, vfs, path, 0, cursor, clk)
    ELSE vfs

\* COMMIT: Commit4args::execute.  The local write cursor of the connection
\* is committed, the fh is touched and dropped from the fh
\* cache; the write cache of the fh is not told.
Commit ==
  /\ Running
  /\ IF request.filehandle = {}
       THEN /\ last_fs.op # "COMMIT"
            /\ last_fs' = [NoFs EXCEPT !.op = "COMMIT",
                                       !.status = "NFS4ERR_FHEXPIRED"]
            /\ UNCHANGED <<fs, fmanager, request, filehandle_cache,
                           write_cache, handed, unstable>>
       ELSE LET fh == CHOOSE e \in request.filehandle : TRUE
                present == IsFile(fs, fh.path)
                vfs == IF present
                         THEN write_cache_commit(backend, fs, fh.path,
                                                 write_cache, clock)
                         ELSE fs
                self == IF present
                          THEN TouchFile(fmanager, backend, vfs, fh.id)
                          ELSE fmanager
                pending == {u \in unstable : u.id = fh.id}
            IN /\ \A e \in stored(fmanager, fh.id) :
                    e.version < MaxVersion
               /\ fs' = vfs
               /\ fmanager' = self
               /\ handed' = forget_dropped(handed, fmanager, self)
               /\ request' = [request EXCEPT !.alive = present]
               /\ write_cache' = IF present THEN << >> ELSE write_cache
               /\ filehandle_cache' =
                    IF present
                      THEN drop_filehandle_from_cache(filehandle_cache,
                                                      fh.id)
                      ELSE filehandle_cache
               /\ unstable' = IF present THEN unstable \ pending ELSE unstable
               /\ last_fs' =
                    [NoFs EXCEPT
                       !.op = "COMMIT",
                       !.status = IF present THEN "NFS4_OK" ELSE "panic",
                       !.id = fh.id, !.path = fh.path,
                       !.seen = request.filehandle,
                       !.left = request.filehandle,
                       !.pending = {u.offset : u \in pending},
                       !.cached = fh.id \in fmanager.cachedb,
                       !.content = IF present
                                     THEN vfs[fh.path].content
                                     ELSE << >>,
                       !.stored_before = stored(fmanager, fh.id),
                       !.stored_after = stored(self, fh.id)]
  /\ UNCHANGED <<backend, write_caches>>
  /\ UNCHANGED <<cmvars, actorvars, wirevars, last_call, connvars, leasevars>>

\* the verifier of an EXCLUSIVE4 create; the first of the owners that open
OpenVerifier == <<1, 2, 3, 4, 5, 6, 7, 8>>
OpenOwner == [clientid |-> 1, owner |-> <<1>>]

\* OPEN: Open4args::execute with open_for_reading and open_for_writing.
\* The current fh must be a directory, the claim CLAIM_NULL, the name not
\* empty.  Without create the fh of the path becomes the current one; with
\* UNCHECKED4 or EXCLUSIVE4 the file manager creates the file and the fh it
\* sends back becomes the current one; any other create mode is NOTSUPP.
Open(claim, file, how, owner, share_access, share_deny) ==
  /\ Running
  /\ LET none == request.filehandle = {}
         fh == CHOOSE e \in request.filehandle : TRUE
         path == Append(fh.path, file)
         refused ==
           IF none THEN "NFS4ERR_FHEXPIRED"
           ELSE IF ~is_dir(fs, fh.path) THEN "NFS4ERR_NOTDIR"
           ELSE IF claim # "CLAIM_NULL" THEN "NFS4ERR_NOTSUPP"
           ELSE IF file = "" THEN "NFS4ERR_INVAL"
           ELSE IF how \in {"NOCREATE", "UNCHECKED4", "EXCLUSIVE4"}
             THEN "NFS4_OK"
           ELSE "NFS4ERR_NOTSUPP"
         proceeds == refused = "NFS4_OK"
         idle == [vfs |-> fs, self |-> fmanager, res |-> {}]
         looked == IF proceeds /\ how = "NOCREATE"
                     THEN GetFilehandle_path(fmanager, backend, fs, path)
                     ELSE idle
         created == IF proceeds /\ how # "NOCREATE"
                      THEN CreateFile(fmanager, backend, fs, path,
                                      OpenOwner.clientid, owner,
                                      share_access, share_deny,
                                      IF how = "EXCLUSIVE4"
                                        THEN {OpenVerifier} ELSE {},
                                      clock)
                      ELSE idle
         reading(g) ==
           IF ~g.self.alive
             THEN [status |-> "NFS4ERR_SERVERFAULT", vfs |-> fs,
                   self |-> g.self, left |-> request.filehandle,
                   res |-> {}]
             ELSE IF g.res = {}
               THEN [status |-> send_filehandle_request(FALSE, TRUE, FALSE),
                     vfs |-> fs, self |-> fmanager,
                     left |-> request.filehandle, res |-> {}]
               ELSE [status |-> "NFS4_OK", vfs |-> fs, self |-> g.self,
                     left |-> g.res, res |-> g.res]
         writing(c) ==
           IF c.res = {} \/ ~c.self.alive
             THEN [status |-> "NFS4ERR_SERVERFAULT", vfs |-> c.vfs,
                   self |-> c.self, left |-> request.filehandle,
                   res |-> {}]
             ELSE [status |-> "NFS4_OK", vfs |-> c.vfs, self |-> c.self,
                   left |-> c.res, res |-> c.res]
         replies ==
           {IF ~proceeds
              THEN [status |-> refused, vfs |-> fs, self |-> fmanager,
                    left |-> request.filehandle, res |-> {}]
            ELSE IF how = "NOCREATE" THEN reading(g)
            ELSE writing(c) : g \in {looked}, c \in {created}}
     IN \E out \in replies :
          /\ out.self.next_fh_id <= FirstFhId + MaxMint
          /\ out.self.next_stateid_id <= FirstStateId + MaxOpen
          /\ \A e \in out.self.fhdb : e.version <= 1 + MaxOpen
          /\ fs' = out.vfs
          /\ fmanager' = out.self
          /\ handed' = forget_dropped(handed, fmanager, out.self)
          /\ request' = [request EXCEPT !.filehandle = out.left]
          /\ last_fs' =
               [NoFs EXCEPT
                  !.op = "OPEN", !.status = out.status, !.how = how,
                  !.id = IF out.res # {}
                           THEN (CHOOSE e \in out.res : TRUE).id ELSE NoFh,
                  !.path = IF out.res # {}
                             THEN (CHOOSE e \in out.res : TRUE).path
                             ELSE RootPath,
                  !.verifier = IF how = "EXCLUSIVE4"
                                 THEN {OpenVerifier} ELSE {},
                  !.owner = {owner},
                  !.stateid = UNION {{l.stateid : l \in e.locks} :
                                       e \in out.res},
                  !.seen = request.filehandle,
                  !.left = out.left,
                  !.stored_after =
                     UNION {stored(out.self, e.id) : e \in out.res}]
  /\ UNCHANGED <<backend, write_caches, filehandle_cache, write_cache,
                 unstable>>
  /\ UNCHANGED <<cmvars, actorvars, wirevars, last_call, connvars, leasevars>>

\* READDIR: Readdir4args::execute.  The directory of the current fh is
\* listed (read_dir().unwrap() panics on what is no directory), the entries
\* the cookie selects are taken while the budgets last and their fhs
\* fetched; then the verifier sampled from the names is compared with the
\* one supplied, unless the cookie is 0; the reply carries the entries,
\* the padded verifier and eof: true when no entry is in the reply, or when
\* the cookie of the first entry plus the number of entries reaches the
\* number of names.
Readdir(fnames, cookie, cookieverf, dircount, maxcount) ==
  /\ Running
  /\ IF request.filehandle = {}
       THEN /\ last_fs.op # "READDIR"
            /\ last_fs' = [NoFs EXCEPT !.op = "READDIR",
                                       !.status = "NFS4ERR_FHEXPIRED"]
            /\ UNCHANGED <<fmanager, request, handed>>
       ELSE LET fh == CHOOSE e \in request.filehandle : TRUE
            IN IF ~is_dir(fs, fh.path)
                 THEN /\ request' = [request EXCEPT !.alive = FALSE]
                      /\ last_fs' = [NoFs EXCEPT !.op = "READDIR",
                                                 !.status = "panic",
                                                 !.id = fh.id,
                                                 !.path = fh.path]
                      /\ UNCHANGED <<fmanager, handed>>
                 ELSE LET entries == readdir_scan(fnames, 0, cookie,
                                                  dircount, maxcount, 0, 128)
                          self == readdir_filehandles(fmanager, backend, fs,
                                                      fh.path, entries)
                          same == cookie = 0
                                    \/ sampled_cookieverf(fnames) = cookieverf
                      IN /\ fnames \in read_dir(fs, fh.path)
                         /\ self.next_fh_id <= FirstFhId + MaxDirMint
                         /\ fmanager' = self
                         /\ handed' = forget_dropped(handed, fmanager, self)
                         /\ UNCHANGED request
                         /\ last_fs' =
                              [NoFs EXCEPT
                                 !.op = "READDIR",
                                 !.status = IF same THEN "NFS4_OK"
                                            ELSE "NFS4ERR_NOT_SAME",
                                 !.id = fh.id, !.path = fh.path,
                                 !.seen = request.filehandle,
                                 !.left = request.filehandle,
                                 !.cookie = cookie,
                                 !.cookieverf = cookieverf,
                                 !.dircount = dircount,
                                 !.maxcount = maxcount,
                                 !.dir = fnames,
                                 !.continues =
                                    /\ last_fs.op = "READDIR"
                                    /\ last_fs.status = "NFS4_OK"
                                    /\ last_fs.path = fh.path
                                    /\ last_fs.dir = fnames
                                    /\ last_fs.entries # << >>
                                    /\ last_fs.entries[
                                         Len(last_fs.entries)].name
                                         # fnames[Len(fnames)]
                                    /\ cookie =
                                         last_fs.entries[
                                           Len(last_fs.entries)].cookie
                                    /\ cookieverf = last_fs.reply_verf,
                                 !.entries = IF same THEN entries ELSE << >>,
                                 !.eof =
                                    /\ same
                                    /\ \/ entries = << >>
                                       \/ entries[1].cookie + Len(entries)
                                            >= Len(fnames),
                                 !.reply_verf =
                                    IF same THEN padded_cookieverf(fnames)
                                    ELSE << >>]
  /\ UNCHANGED <<backend, fs, write_caches, filehandle_cache, write_cache,
                 unstable>>
  /\ UNCHANGED <<cmvars, actorvars, wirevars, last_call, connvars, leasevars>>

\* CLOSE: Close4args::execute.  The current fh is unwrapped (a request
\* without one panics) and dropped from the fh cache of the connection; the
\* file manager is sent nothing.
Close(open_stateid) ==
  /\ Running
  /\ IF request.filehandle = {}
       THEN /\ request' = [request EXCEPT !.alive = FALSE]
            /\ last_fs' = [NoFs EXCEPT !.op = "CLOSE", !.status = "panic",
                                       !.stateid = {open_stateid}]
            /\ UNCHANGED filehandle_cache
       ELSE LET fh == CHOOSE e \in request.filehandle : TRUE
            IN /\ filehandle_cache' =
                    drop_filehandle_from_cache(filehandle_cache, fh.id)
               /\ last_fs' =
                    [NoFs EXCEPT
                       !.op = "CLOSE", !.status = "NFS4_OK",
                       !.id = fh.id, !.path = fh.path,
                       !.stateid = {open_stateid},
                       !.locked = \E l \in fmanager.lockdb :
                                     l.stateid = open_stateid,
                       !.seen = request.filehandle,
                       !.left = request.filehandle,
                       !.pending = {u.offset : u \in
                                      {x \in unstable : x.id = fh.id}},
                       !.cached = fh.id \in fmanager.cachedb,
                       !.stored_before = stored(fmanager, fh.id),
                       !.stored_after = stored(fmanager, fh.id)]
               /\ UNCHANGED request
  /\ UNCHANGED <<backend, fs, fmanager, write_caches, write_cache, handed,
                 unstable>>
  /\ UNCHANGED <<cmvars, actorvars, wirevars, last_call, connvars, leasevars>>

\* REMOVE: Remove4args::execute.  The target is joined to the path of the
\* current fh and the file manager removes it; the result says OK,
\* the status of the response STALE.
Remove(target) ==
  /\ Running
  /\ IF request.filehandle = {}
       THEN /\ last_fs.op # "REMOVE"
            /\ last_fs' = [NoFs EXCEPT !.op = "REMOVE",
                                       !.status = "NFS4ERR_STALE",
                                       !.result = "NFS4ERR_STALE"]
            /\ UNCHANGED <<fs, fmanager, handed>>
       ELSE LET fh == CHOOSE e \in request.filehandle : TRUE
                path == Append(fh.path, target)
                out == RemoveFile(fmanager, backend, fs, path, clock)
            IN /\ \A e \in get_filehandle_by_path(fmanager, parent(path)) :
                    e.version < MaxVersion
               /\ fs' = out.vfs
               /\ fmanager' = out.self
               /\ handed' = forget_dropped(handed, fmanager, out.self)
               /\ last_fs' =
                    [NoFs EXCEPT
                       !.op = "REMOVE",
                       !.status = IF out.self.alive
                                    THEN "NFS4ERR_STALE"
                                    ELSE "NFS4ERR_SERVERFAULT",
                       !.result = IF out.self.alive
                                    THEN "NFS4_OK" ELSE "NFS4ERR_SERVERFAULT",
                       !.id = fh.id, !.path = path,
                       !.seen = request.filehandle,
                       !.left = request.filehandle,
                       !.found = Exists(fs, path),
                       !.was_dir = is_dir(fs, path),
                       !.touched =
                          \E x \in get_filehandle_by_path(fmanager,
                                                          parent(path)) :
                            \E y \in get_filehandle_by_path(out.self,
                                                            parent(path)) :
                              y.version > x.version,
                       !.stored_before = stored(fmanager, fh.id),
                       !.stored_after = stored(out.self, fh.id)]
  /\ UNCHANGED <<backend, write_caches, request, filehandle_cache,
                 write_cache, unstable>>
  /\ UNCHANGED <<cmvars, actorvars, wirevars, last_call, connvars, leasevars>>

\* FileManagerHandle::update_filehandle with a fh the connection
\* holds, the current one or a cached one: handle_message(UpdateFilehandle)
UpdateFilehandle(fh) ==
  /\ Running
  /\ LET self == update_filehandle(fmanager, fh)
     IN /\ fmanager' = self
        /\ handed' = forget_dropped(handed, fmanager, self)
        /\ last_fs' =
             [NoFs EXCEPT !.op = "UpdateFilehandle",
                          !.status = IF self.alive THEN "NFS4_OK" ELSE "panic",
                          !.id = fh.id, !.path = fh.path,
                          !.seen = request.filehandle,
                          !.left = request.filehandle,
                          !.stored_before = stored(fmanager, fh.id),
                          !.stored_after = stored(self, fh.id)]
  /\ UNCHANGED <<backend, fs, write_caches, request, filehandle_cache,
                 write_cache, unstable>>
  /\ UNCHANGED <<cmvars, actorvars, wirevars, last_call, connvars, leasevars>>

\* WriteCacheHandle::commit: WriteCache::handle_message(Commit).  A changed
\* buffer is written to the file opened for append, from offset 0, and the
\* fh is touched; the file manager drops the handle.  An actor whose
\* file is gone panics at append_file().unwrap().  The actor goes on as long
\* as a copy of the filehandle with its handle is around: the one of the
\* request or one in the filehandle cache of the connection.
WriteCacheCommit(w) ==
  /\ Running
  /\ w.listed
  /\ LET present == IsFile(fs, w.path)
         write == w.changed /\ present
         vfs == IF write
                  THEN append_write(backend, fs, w.path, 0, w.filelike, clock)
                  ELSE fs
         touched == IF write /\ Len(w.filelike) > 0
                      THEN TouchFile(fmanager, backend, vfs, w.id)
                      ELSE fmanager
         self == IF w.changed /\ ~present
                   THEN fmanager
                   ELSE drop_cache_handle(touched, vfs, w.id)
     IN /\ \A e \in stored(fmanager, w.id) : e.version < MaxVersion
        /\ write => Len(vfs[w.path].content) <= MaxLen
        /\ fs' = vfs
        /\ fmanager' = self
        /\ handed' = forget_dropped(handed, fmanager, self)
        /\ write_caches' =
             IF /\ ~(w.changed /\ ~present)
                /\ \E e \in request.filehandle
                             \cup {c.fh : c \in filehandle_cache} :
                     w.serial \in e.write_cache
               THEN (write_caches \ {w}) \cup {[w EXCEPT !.listed = FALSE]}
               ELSE write_caches \ {w}
        /\ last_fs' =
             [NoFs EXCEPT !.op = "WriteCacheCommit",
                          !.status = IF w.changed /\ ~present
                                       THEN "panic" ELSE "NFS4_OK",
                          !.id = w.id, !.path = w.path,
                          !.seen = request.filehandle,
                          !.left = request.filehandle,
                          !.content = IF present
                                        THEN vfs[w.path].content ELSE << >>,
                          !.stored_before = stored(fmanager, w.id),
                          !.stored_after = stored(self, w.id)]
  /\ UNCHANGED <<backend, request, filehandle_cache, write_cache, unstable>>
  /\ UNCHANGED <<cmvars, actorvars, wirevars, last_call, connvars, leasevars>>

\* another program removes a file of the exported tree
VfsRemove(path) ==
  /\ backend # None
  /\ Exists(fs, path)
  /\ fs' = remove_file(fs, path, clock)
  /\ UNCHANGED <<backend, fmanager, write_caches, request, filehandle_cache,
                 write_cache, handed, unstable, last_fs>>
  /\ UNCHANGED <<cmvars, actorvars, wirevars, last_call, connvars, leasevars>>

\* another program creates an empty file in the exported tree
VfsCreate(path) ==
  /\ backend # None
  /\ ~Exists(fs, path)
  /\ fs' = [fs EXCEPT ![path] = [exists |-> TRUE, content |-> << >>,
                                 modified |-> Now(clock)],
                      ![RootPath].modified = Now(clock)]
  /\ UNCHANGED <<backend, fmanager, write_caches, request, filehandle_cache,
                 write_cache, handed, unstable, last_fs>>
  /\ UNCHANGED <<cmvars, actorvars, wirevars, last_call, connvars, leasevars>>

\* time passes, more than cache_ttl at once
TickFS ==
  /\ backend # None
  /\ clock + TickSeconds <= MaxFsClock
  /\ clock' = clock + TickSeconds
  /\ UNCHANGED <<cmvars, actorvars, wirevars, last_call, connvars, refreshed,
                 last_renew, fmvars>>

\* SpecFM: names and filehandle ids are resolved while files come and go
NextFM ==
  \/ \E b \in Backends : FileManager_new(b)
  \/ NewRequest
  \/ \E object \in FhIds : PutFh(object)
  \/ \E objname \in Names : Lookup(objname)
  \/ \E offset \in Offsets : WriteFileSync(offset)
  \/ \E target \in Names : Remove(target)
  \/ \E path \in Volatile : VfsRemove(path)
  \/ \E path \in Volatile : VfsCreate(path)

SpecFM == Init /\ [][NextFM]_vars

\* SpecIO: the files of the exported tree are written and committed
\* the name of the file SpecIO writes to, and the filehandle ids it uses
IoNames == {"a"}

IoFhIds == {RootFhId, NewFhId(FirstFhId)}

\* FILE_SYNC WRITE and READ name the offsets 0 and 1, READ counts the
\* bytes of one WRITE; CLOSE carries the all-zero stateid open_for_reading
\* returns, SpecIO having no OPEN
NextIO ==
  \/ \E b \in Backends : FileManager_new(b)
  \/ NewRequest
  \/ \E object \in IoFhIds : PutFh(object)
  \/ \E objname \in IoNames : Lookup(objname)
  \/ \E offset \in Offsets : WriteUnstable(offset)
  \/ \E offset \in {0, 1} : WriteFileSync(offset)
  \/ WriteNoFilehandle
  \/ \E offset \in {0, 1}, count \in {Len(WriteData)} : Read(offset, count)
  \/ Commit
  \/ \E open_stateid \in {<<0, 0, 0, 0, 0, 0, 0, 0, 0, 0, 0, 0>>} :
       Close(open_stateid)
  \/ \E fh \in request.filehandle \cup {c.fh : c \in filehandle_cache} :
       UpdateFilehandle(fh)
  \/ \E w \in write_caches : WriteCacheCommit(w)
  \/ TickFS

SpecIO == Init /\ [][NextIO]_vars

\* the number get_new_lockingstate_id put into a stateid
minted(stateid) ==
  stateid[9] * 16777216 + stateid[10] * 65536 + stateid[11] * 256
    + stateid[12]

\* locks[0] of a filehandle: get_by_filehandle_id walks the locks of the
\* filehandle in the order they were inserted into lockdb, which is the
\* order their stateids were minted in
first_lock(locks) ==
  CHOOSE l \in locks :
    \A m \in locks : minted(l.stateid) <= minted(m.stateid)

\* OPEN_CONFIRM: OpenConfirm4args::execute.  current_filehandle().unwrap()
\* panics without a current filehandle and locks[0] panics on a filehandle
\* without locks; otherwise the stateid of the first lock is the answer,
\* whatever open_stateid the caller sent.  how and caller record the mode
\* and the owner of the successful OPEN the operation follows, if it follows
\* one.
OpenConfirm(open_stateid) ==
  /\ Running
  /\ LET follows == IF last_fs.op = "OPEN" /\ last_fs.status = "NFS4_OK"
                      THEN last_fs.how ELSE None
     IN IF \/ request.filehandle = {}
           \/ (CHOOSE e \in request.filehandle : TRUE).locks = {}
          THEN /\ request' = [request EXCEPT !.alive = FALSE]
               /\ last_fs' = [NoFs EXCEPT !.op = "OPEN_CONFIRM",
                                          !.status = "panic",
                                          !.how = follows,
                                          !.open_stateid = {open_stateid},
                                          !.seen = request.filehandle]
          ELSE LET fh == CHOOSE e \in request.filehandle : TRUE
                   lock == first_lock(fh.locks)
               IN /\ last_fs' =
                       [NoFs EXCEPT
                          !.op = "OPEN_CONFIRM", !.status = "NFS4_OK",
                          !.how = follows,
                          !.caller = IF follows = None
                                       THEN {} ELSE last_fs.owner,
                          !.id = fh.id, !.path = fh.path,
                          !.open_stateid = {open_stateid},
                          !.stateid = {lock.stateid},
                          !.owner = {lock.owner},
                          !.seen = request.filehandle,
                          !.left = request.filehandle]
                  /\ UNCHANGED request
  /\ UNCHANGED <<backend, fs, fmanager, write_caches, filehandle_cache,
                 write_cache, handed, unstable>>
  /\ UNCHANGED <<cmvars, actorvars, wirevars, last_call, connvars, leasevars>>

\* SpecOpen: files are opened, created, closed and removed in the root and
\* in a directory
\* the names LOOKUP and REMOVE of SpecOpen use and the stateids of its
\* CLOSE; its PUTFH names the root
DirNames == {"a", "d"}

Stateids ==
  {<<0, 0, 0, 0>> \o to_be_bytes(n) :
     n \in FirstStateId..(FirstStateId + MaxOpen - 1)}

NextOpen ==
  \/ \E b \in Backends : FileManager_new(b)
  \/ NewRequest
  \/ \E object \in {RootFhId} : PutFh(object)
  \/ \E objname \in DirNames : Lookup(objname)
  \/ \E claim \in {"CLAIM_NULL", "CLAIM_PREVIOUS"},
        file \in OpenNames \cup {""},
        how \in {"NOCREATE", "UNCHECKED4", "GUARDED4", "EXCLUSIVE4"},
        owner \in {OpenOwner.owner},
        share_access \in {1}, share_deny \in {0} :
       Open(claim, file, how, owner, share_access, share_deny)
  \/ \E open_stateid \in Stateids : Close(open_stateid)
  \/ \E target \in DirNames : Remove(target)

SpecOpen == Init /\ [][NextOpen]_vars

\* SpecConfirm: two owners open files of the root, with and without
\* creating them, and confirm and close what they opened
NextConfirm ==
  \/ \E b \in Backends : FileManager_new(b)
  \/ NewRequest
  \/ \E object \in {RootFhId} : PutFh(object)
  \/ \E file \in OpenNames \cup Names,
        how \in {"NOCREATE", "UNCHECKED4"},
        owner \in {OpenOwner.owner, <<2>>} :
       Open("CLAIM_NULL", file, how, owner, 1, 0)
  \/ \E open_stateid \in Stateids : OpenConfirm(open_stateid)
  \/ \E open_stateid \in Stateids : Close(open_stateid)

SpecConfirm == Init /\ [][NextConfirm]_vars

\* SpecDir: the root and a directory are read while files come and go
\* the listings read_dir may give for the current filehandle
CurrentListings ==
  IF request.filehandle = {} THEN {<< >>}
  ELSE LET fh == CHOOSE e \in request.filehandle : TRUE
       IN IF is_dir(fs, fh.path) THEN read_dir(fs, fh.path) ELSE {<< >>}

\* READDIR comes with no cookie or that of the first or second entry, with
\* the all-zero verifier or the one the server returns for the listing, and
\* with budgets that are absent, ample or enough for one entry
NextDir ==
  \/ \E b \in Backends : FileManager_new(b)
  \/ NewRequest
  \/ \E object \in {RootFhId} : PutFh(object)
  \/ \E objname \in DirNames : Lookup(objname)
  \/ \E fnames \in CurrentListings, cookie \in {0, 3, 4},
        dircount \in {0, 262122}, maxcount \in {400, 1048488} :
       \E cookieverf \in {[i \in 1..8 |-> 0], padded_cookieverf(fnames)} :
         Readdir(fnames, cookie, cookieverf, dircount, maxcount)
  \/ \E path \in Volatile : VfsRemove(path)
  \/ \E path \in Volatile : VfsCreate(path)

SpecDir == Init /\ [][NextDir]_vars

\* ------------------------------------------------------------------------
\* SpecWire: one connection of NFSServer::start read through the record
\* marking codec
\* ------------------------------------------------------------------------

\* bytes of the client arrive: a whole fragment, or its header alone, behind
\* what has arrived whole
ClientSend(f, whole) ==
  /\ transport.state # "closed"
  /\ ~transport.eof
  /\ Len(src) < MaxFragments
  /\ src # << >> => src[Len(src)].whole
  /\ src' = Append(src, [is_last |-> f.is_last, length |-> f.length,
                         good |-> f.good, whole |-> whole])
  /\ UNCHANGED <<transport, attrmask, listener, cmvars, actorvars, last_call, connvars,
                 leasevars, fmvars>>

\* the rest of a fragment arrives
ClientComplete ==
  /\ src # << >>
  /\ ~src[Len(src)].whole
  /\ src[Len(src)].length <= MAX
  /\ src' = [src EXCEPT ![Len(src)].whole = TRUE]
  /\ UNCHANGED <<transport, attrmask, listener, cmvars, actorvars, last_call, connvars,
                 leasevars, fmvars>>

\* the client closes its side of the connection
ClientClose ==
  /\ transport.state # "closed"
  /\ ~transport.eof
  /\ transport' = [transport EXCEPT !.eof = TRUE]
  /\ UNCHANGED <<src, attrmask, listener, cmvars, actorvars, last_call, connvars, leasevars,
                 fmvars>>

\* one turn of the inner loop of NFSServer::start: nfs_transport.next()
\* runs decode on the buffer.  Some(Ok(msg)): the call is served (as Spec
\* describes) and its reply sent.  Some(Err(e)): a reply with GarbageArgs and
\* xid 0 is sent.  Ok(None) leaves the loop waiting for bytes; at the end of
\* the stream it is None with an empty buffer, which ends the loop, and an
\* error for the bytes that remain otherwise.
ServeNext ==
  /\ transport.state = "open"
  /\ Len(transport.sent) < MaxSent
  /\ LET d == decode(src, 0, TRUE)
         ended == d.item = "None" /\ transport.eof
         failed == d.item = "Err" \/ (ended /\ d.src # << >>)
     IN /\ src' = d.src
        /\ transport' =
             [transport EXCEPT
                !.item = IF failed THEN "Err" ELSE d.item,
                !.size = d.size,
                !.advanced = d.src # src,
                !.sent = IF d.item = "Ok" THEN Append(@, "Reply")
                         ELSE IF failed THEN Append(@, "GarbageArgs")
                         ELSE @,
                !.state = IF failed THEN "errored"
                          ELSE IF ended THEN "closed"
                          ELSE "open"]
  /\ UNCHANGED <<attrmask, listener, cmvars, actorvars, last_call, connvars, leasevars,
                 fmvars>>

\* nfs_transport.next() after the decoder has failed: the Framed of the
\* build either ends the stream (None, the loop breaks and the connection
\* is dropped) or runs decode again on the buffer as it stands
NextAfterError ==
  /\ transport.state = "errored"
  /\ \E state \in {"closed", "open"} :
       transport' = [transport EXCEPT !.state = state]
  /\ UNCHANGED <<src, attrmask, listener, cmvars, actorvars, last_call, connvars, leasevars,
                 fmvars>>

\* listener.accept() after the loop of a connection has ended
AcceptNext ==
  /\ transport.state = "closed"
  /\ src' = << >>
  /\ transport' = Framed_new
  /\ UNCHANGED <<attrmask, listener, cmvars, actorvars, last_call, connvars, leasevars,
                 fmvars>>

NextWire ==
  \/ \E f \in Fragments, whole \in BOOLEAN : ClientSend(f, whole)
  \/ ClientComplete
  \/ ClientClose
  \/ ServeNext
  \/ NextAfterError
  \/ AcceptNext

SpecWire == Init /\ [][NextWire]_vars

\* ------------------------------------------------------------------------
\* Properties of the client table
\* ------------------------------------------------------------------------

confirmed_of(d, clientid) == {e \in get_by_clientid(d, clientid) : e.confirmed}

unconfirmed_of(d, clientid) ==
  {e \in get_by_clientid(d, clientid) : ~e.confirmed}

\* C5 (SpecActor): whatever the order in which the requests of the tasks
\* reach the mailbox, two records of the table carry the same clientid
\* exactly when they carry the same id string, and the clientids handed out
\* are the numbers 1..client_id_seq, one per id string of the table at most.
ClientIdsInjective ==
  /\ \A e1 \in db, e2 \in db : (e1.id = e2.id) <=> (e1.clientid = e2.clientid)
  /\ \A e \in db : e.clientid \in 1..client_id_seq
  /\ Cardinality({e.id : e \in db}) <= client_id_seq

\* C5 witness: both id strings are in the table under the clientids 1 and
\* 2 while the requests of two tasks are queued together, one of them a
\* further upsert of an id of the table.
ClientIdsInjectiveWitness ==
  /\ {e.clientid : e \in db} = {1, 2}
  /\ {e.id : e \in db} = Ids
  /\ Len(mailbox) = 2
  /\ mailbox[1].respond_to # mailbox[2].respond_to
  /\ \E i \in 1..2 : mailbox[i].type = "UpsertClient"

\* C7 (SpecCM): every clientid has at most one confirmed and at most one
\* unconfirmed record, and after a successful ConfirmClient(c, k) the
\* record with cookie k is the only confirmed record of c.
OneRecordPerState ==
  /\ \A c \in ClientIds :
       /\ Cardinality(confirmed_of(db, c)) <= 1
       /\ Cardinality(unconfirmed_of(db, c)) <= 1
  /\ (last_call.type = "ConfirmClient" /\ last_call.ok) =>
       /\ Cardinality(confirmed_of(db, last_call.client_id)) = 1
       /\ \A e \in confirmed_of(db, last_call.client_id) :
            e.setclientid_confirm = last_call.setclientid_confirm

\* C7 witness: a ConfirmClient succeeded on a clientid that had a confirmed
\* record with another cookie.
OneRecordPerStateWitness ==
  /\ last_call.type = "ConfirmClient"
  /\ last_call.ok
  /\ \E e \in confirmed_of(last_call.db, last_call.client_id) :
       e.setclientid_confirm # last_call.setclientid_confirm

\* the call confirms a pair that is confirmed already, with its principal
SecondConfirm ==
  /\ last_call.type = "ConfirmClient"
  /\ \E e \in confirmed_of(last_call.db, last_call.client_id) :
       /\ e.setclientid_confirm = last_call.setclientid_confirm
       /\ e.principal = last_call.principal

\* C8 (SpecCM): ConfirmClient of a (clientid, cookie) pair that is already
\* confirmed succeeds, returns that record, and leaves the table as it was,
\* with that record the only confirmed one of the clientid.
ConfirmIdempotent ==
  SecondConfirm =>
    /\ last_call.ok
    /\ last_call.entry =
         {e \in last_call.db :
            /\ e.clientid = last_call.client_id
            /\ e.setclientid_confirm = last_call.setclientid_confirm}
    /\ db = last_call.db
    /\ confirmed_of(db, last_call.client_id) = last_call.entry

\* C8 witness: a pair that was confirmed already has been confirmed again.
ConfirmIdempotentWitness ==
  /\ SecondConfirm
  /\ last_call.ok
  /\ db = last_call.db

\* the call is an UpsertClient for an id that has a confirmed record with
\* another principal
UpsertOtherPrincipal ==
  /\ last_call.type = "UpsertClient"
  /\ \E e \in get_by_id(last_call.db, last_call.id) :
       e.confirmed /\ e.principal # last_call.principal

\* C9 (SpecCM): UpsertClient for an id that has a confirmed record with
\* another principal fails with CLID_INUSE and leaves the records and the
\* clientid sequence as they were.
UpsertClidInuse ==
  UpsertOtherPrincipal =>
    /\ ~last_call.ok
    /\ last_call.nfs_error = "NFS4ERR_CLID_INUSE"
    /\ db = last_call.db
    /\ client_id_seq = last_call.seq

\* C9 witness: the refused call found a confirmed record and an unconfirmed
\* record for the id.
UpsertClidInuseWitness ==
  /\ UpsertOtherPrincipal
  /\ last_call.nfs_error = "NFS4ERR_CLID_INUSE"
  /\ \E e \in get_by_id(db, last_call.id) : ~e.confirmed

\* ------------------------------------------------------------------------
\* Properties of COMPOUND evaluation and of the client operations
\* ------------------------------------------------------------------------

\* C1 (Spec): once an operation of a COMPOUND has returned a non-OK status,
\* no further entry of the argarray is evaluated: the operation evaluated
\* last is the failing one, the loop has ended, and the current filehandle
\* and the status are the ones that operation left.
NoOpAfterFailure ==
  failed_at # 0 =>
    /\ idx = failed_at
    /\ pc \in {"done", "idle"}
    /\ last_op.status # "NFS4_OK"
    /\ last_status = last_op.status
    /\ filehandle = last_op.left

\* C1 witness: the first of two operations failed and the reply was sent.
NoOpAfterFailureWitness ==
  /\ failed_at = 1
  /\ nargs = 2
  /\ reply.sent

\* C2 as claimed: the reply to a COMPOUND whose k-th operation is the first
\* to fail has a resarray of length k and the status of that operation.
ResarrayLengthK ==
  (reply.sent /\ failed_at # 0) =>
    /\ Len(reply.resarray) = failed_at
    /\ reply.status = last_op.status

\* C2 amended (Spec): the resarray has length k when the failing operation
\* produced a result and k - 1 when it produced none; the status of the
\* reply is the status of the k-th operation.
ResarrayLengthKOrLess ==
  (reply.sent /\ failed_at # 0) =>
    /\ Len(reply.resarray) =
         IF last_op.some THEN failed_at ELSE failed_at - 1
    /\ last_op.some => reply.resarray[failed_at] = last_op.result
    /\ reply.status = last_op.status

\* C2 witness: the second operation failed with a result and the reply
\* carries two results.
ResarrayLengthKOrLessWitness ==
  /\ reply.sent
  /\ failed_at = 2
  /\ last_op.some
  /\ Len(reply.resarray) = 2

\* C3 (Spec): the first operation of a COMPOUND sees no current filehandle,
\* every later one sees the filehandle its predecessor left, and a leading
\* GETFH fails with SERVERFAULT.
FilehandleThreaded ==
  /\ (pc = "compound" /\ idx = 0) => filehandle = NoFh
  /\ last_op.op # None =>
       last_op.seen = IF last_op.first THEN NoFh ELSE last_op.prev_left
  /\ (last_op.op = "GETFH" /\ last_op.first) =>
       /\ last_op.status = "NFS4ERR_SERVERFAULT"
       /\ ~last_op.some

\* C3 witness: a leading GETFH failed on a connection whose earlier COMPOUND
\* had selected the root filehandle.
FilehandleThreadedWitness ==
  /\ last_op.op = "GETFH"
  /\ last_op.first
  /\ last_op.status = "NFS4ERR_SERVERFAULT"
  /\ serving \in DOMAIN filehandles
  /\ filehandles[serving] = RootFhId

\* the operation evaluated last is a SETCLIENTID for an id whose records,
\* before it, were unconfirmed and carried another verifier
ReissuedSetClientId ==
  /\ last_op.op = "SETCLIENTID"
  /\ get_by_id(last_op.db, last_op.id) # {}
  /\ \A e \in get_by_id(last_op.db, last_op.id) :
       ~e.confirmed /\ e.verifier # last_op.verifier

\* C4 (Spec): SETCLIENTID with the id of an unconfirmed record and another
\* verifier returns the clientid of that record and a cookie that differs
\* from its cookie, and leaves one record for the id, unconfirmed.
SetClientIdReissue ==
  ReissuedSetClientId =>
    /\ last_op.status = "NFS4_OK"
    /\ \A e \in get_by_id(last_op.db, last_op.id) :
         /\ last_op.result.clientid = e.clientid
         /\ last_op.result.cookie # e.setclientid_confirm
    /\ Cardinality(get_by_id(db, last_op.id)) = 1
    /\ \A e \in get_by_id(db, last_op.id) :
         /\ ~e.confirmed
         /\ e.setclientid_confirm = last_op.result.cookie
         /\ e.clientid = last_op.result.clientid
         /\ e.verifier = last_op.verifier

\* C4 witness: the reissued SETCLIENTID has returned clientid 1 again.
SetClientIdReissueWitness ==
  /\ ReissuedSetClientId
  /\ last_op.status = "NFS4_OK"
  /\ last_op.result.clientid = 1
  /\ client_id_seq = 1

\* the operation evaluated last is a SETCLIENTID_CONFIRM naming a clientid
\* and a cookie that no record carried together
ConfirmWithoutRecord ==
  /\ last_op.op = "SETCLIENTID_CONFIRM"
  /\ ~\E e \in get_by_clientid(last_op.db, last_op.clientid) :
        e.setclientid_confirm = last_op.cookie

\* C6 (Spec): SETCLIENTID_CONFIRM returns STALE_CLIENTID when no record of
\* the clientid carries the cookie.
ConfirmStale ==
  ConfirmWithoutRecord => last_op.status = "NFS4ERR_STALE_CLIENTID"

\* C6 witness: the cookie had been handed out and its record replaced; the
\* clientid has an unconfirmed record with a later cookie.
ConfirmStaleWitness ==
  /\ ConfirmWithoutRecord
  /\ last_op.cookie \in drawn
  /\ \A e \in last_op.db : e.setclientid_confirm # last_op.cookie
  /\ \E e \in get_by_clientid(last_op.db, last_op.clientid) : ~e.confirmed
  /\ \A e \in last_op.db : ~e.confirmed
  /\ last_op.status = "NFS4ERR_STALE_CLIENTID"

\* C10 (Spec): RENEW returns STALE_CLIENTID exactly when the clientid has no
\* confirmed record, and OK otherwise.
RenewStaleIffUnconfirmed ==
  last_op.op = "RENEW" =>
    /\ (last_op.status = "NFS4ERR_STALE_CLIENTID")
         <=> (confirmed_of(last_op.db, last_op.clientid) = {})
    /\ last_op.status \in {"NFS4ERR_STALE_CLIENTID", "NFS4_OK"}

\* C10 witness: RENEW of a clientid that has an unconfirmed record only.
RenewStaleIffUnconfirmedWitness ==
  /\ last_op.op = "RENEW"
  /\ get_by_clientid(last_op.db, last_op.clientid) # {}
  /\ confirmed_of(last_op.db, last_op.clientid) = {}
  /\ last_op.status = "NFS4ERR_STALE_CLIENTID"

\* C11 (Spec): a RENEW of a clientid that has a confirmed record succeeds and
\* leaves that record in the table, still confirmed.
RenewKeepsConfirmed ==
  (last_op.op = "RENEW" /\ confirmed_of(last_op.db, last_op.clientid) # {}) =>
    /\ last_op.status = "NFS4_OK"
    /\ confirmed_of(db, last_op.clientid)
         = confirmed_of(last_op.db, last_op.clientid)
    /\ db = last_op.db

\* C11 witness: a RENEW of a confirmed client has returned OK.
RenewKeepsConfirmedWitness ==
  /\ last_op.op = "RENEW"
  /\ confirmed_of(db, last_op.clientid) # {}
  /\ last_op.status = "NFS4_OK"

PathIds ==
  {<<e.path, e.id>> : e \in fmanager.fhdb}
    \cup UNION {{<<p, i>> : i \in handed[p].first \cup handed[p].last} :
                  p \in Paths}

\* C13 (SpecFM): no two different paths share a filehandle id, in the table
\* and in the results of LOOKUP; the id of a path is the single byte 0x80
\* exactly when the path is the root; the table of a running file manager
\* holds the root under that id, and a PUTFH of that id selects the root.
FilehandleIdsInjective ==
  /\ \A x \in PathIds, y \in PathIds : x[2] = y[2] => x[1] = y[1]
  /\ \A x \in PathIds : (x[2] = RootFhId) <=> (x[1] = RootPath)
  /\ (backend # None /\ fmanager.alive) =>
       \E e \in fmanager.fhdb : e.path = RootPath /\ e.id = RootFhId
  /\ (last_fs.op = "PUTFH" /\ last_fs.id = RootFhId) =>
       /\ last_fs.status = "NFS4_OK"
       /\ \A e \in last_fs.left : e.path = RootPath /\ e.id = RootFhId

\* C13 witness: the table holds the root and both files, each file under
\* the id its LOOKUP returned, and the root was selected by PUTFH.
FilehandleIdsInjectiveWitness ==
  /\ Cardinality(fmanager.fhdb) = 3
  /\ handed[<<"a">>].last # {}
  /\ handed[<<"b">>].last # {}
  /\ last_fs.op = "PUTFH"
  /\ last_fs.id = RootFhId
  /\ last_fs.left # {}

\* C14 as claimed: a successful LOOKUP returns the id that the first
\* successful LOOKUP of the same path returned.
LookupIdNeverChanges ==
  (last_fs.op = "LOOKUP" /\ last_fs.status = "NFS4_OK" /\ last_fs.first # {})
    => last_fs.id \in last_fs.first

\* C14 amended (SpecFM): a successful LOOKUP returns the id that the
\* successful LOOKUP of the same path before it returned, unless the record
\* of the path left the table in between (REMOVE, or a resolution of the id
\* that found the file gone).
LookupIdStableWhileStored ==
  (last_fs.op = "LOOKUP" /\ last_fs.status = "NFS4_OK" /\ last_fs.prev # {})
    => last_fs.id \in last_fs.prev

\* C14 witness: the file was written, and so its record touched, between two
\* LOOKUPs that returned the same id.
LookupIdStableWhileStoredWitness ==
  /\ last_fs.op = "LOOKUP"
  /\ last_fs.status = "NFS4_OK"
  /\ last_fs.prev # {}
  /\ last_fs.id \in last_fs.prev
  /\ \E e \in last_fs.left : e.version > 1

\* C15 as claimed: a PUTFH of an id whose file is gone from the backing VFS
\* returns STALE and leaves the current filehandle as it was.
RemovedIsStale ==
  (last_fs.op = "PUTFH" /\ last_fs.gone) =>
    /\ last_fs.status = "NFS4ERR_STALE"
    /\ last_fs.left = last_fs.seen

\* C16 as claimed: an operation that changes the stored record of a
\* filehandle leaves it with a greater version.
VersionIncreases ==
  (/\ last_fs.op \in {"WRITE", "COMMIT", "UpdateFilehandle",
                      "WriteCacheCommit"}
   /\ last_fs.stored_before # {}
   /\ last_fs.stored_after # {}
   /\ last_fs.stored_after # last_fs.stored_before) =>
    \A x \in last_fs.stored_before, y \in last_fs.stored_after :
       y.version > x.version

\* C17 as claimed: after a successful FILE_SYNC WRITE, COMMIT or REMOVE the
\* change attribute of the stored record of the object is greater than it
\* was before.
ChangeIncreases ==
  (/\ \/ last_fs.op = "WRITE" /\ last_fs.stable = "FILE_SYNC4"
      \/ last_fs.op = "COMMIT"
      \/ last_fs.op = "REMOVE" /\ last_fs.found
   /\ last_fs.status \in {"NFS4_OK"} \cup
        (IF last_fs.op = "REMOVE" THEN {"NFS4ERR_STALE"} ELSE {})
   /\ last_fs.stored_before # {}
   /\ last_fs.stored_after # {}) =>
    \A x \in last_fs.stored_before, y \in last_fs.stored_after :
       y.attr_change > x.attr_change

PutFhMissClears ==
  (last_fs.op = "PUTFH" /\ ~last_fs.hit /\ ~last_fs.found) =>
    /\ last_fs.status = "NFS4ERR_STALE"
    /\ last_fs.left = {}

\* C20 as claimed: after a successful COMMIT on a filehandle, the file holds
\* the bytes of every successful UNSTABLE WRITE to that filehandle since the
\* COMMIT before, each at its offset.
CommitWritesUnstable ==
  (last_fs.op = "COMMIT" /\ last_fs.status = "NFS4_OK"
     /\ last_fs.pending # {}) =>
    \A offset \in last_fs.pending :
       HoldsAt(last_fs.content, offset, WriteData)

\* C21 as claimed: a READ that follows a successful FILE_SYNC or DATA_SYNC
\* WRITE on the same filehandle, at the offset and with the length of the
\* WRITE, returns the bytes written.
ReadAfterSyncWrite ==
  (last_fs.op = "READ" /\ last_fs.status = "NFS4_OK" /\ last_fs.after_sync)
    => last_fs.data = WriteData

\* C23 as claimed: after a successful COMMIT or CLOSE on a filehandle whose
\* id had an entry in the write-cache registry, the registry has no entry
\* for the id and the stored record of the id has no write cache.
WriteCacheDestroyed ==
  (/\ last_fs.op \in {"COMMIT", "CLOSE"}
   /\ last_fs.status = "NFS4_OK"
   /\ last_fs.cached) =>
    /\ last_fs.id \notin fmanager.cachedb
    /\ \A e \in stored(fmanager, last_fs.id) : e.write_cache = {}

\* C22 as claimed: after a successful CLOSE of a stateid that the lock table
\* held a record for, the lock table holds no record with the stateid and
\* the current filehandle has no lock with the stateid attached.
CloseRemovesLock ==
  (last_fs.op = "CLOSE" /\ last_fs.status = "NFS4_OK" /\ last_fs.locked) =>
    /\ \A l \in fmanager.lockdb : l.stateid \notin last_fs.stateid
    /\ \A e \in request.filehandle :
         \A l \in e.locks : l.stateid \notin last_fs.stateid

\* C24 as claimed: after a successful OPEN with create mode EXCLUSIVE4 the
\* record the file manager stores for the created file carries the
\* verifier of the request.
ExclusiveVerifierStored ==
  (/\ last_fs.op = "OPEN"
   /\ last_fs.how = "EXCLUSIVE4"
   /\ last_fs.status = "NFS4_OK") =>
    /\ last_fs.stored_after # {}
    /\ \A e \in last_fs.stored_after : e.verifier = last_fs.verifier

\* C25 as claimed: after RemoveFile of a path at which a file or a directory
\* stood, nothing stands at the path in the backing store, the table of the
\* file manager has no filehandle for the path, and the filehandle of the
\* parent directory was touched.
RemoveFileRemoves ==
  (last_fs.op = "REMOVE" /\ last_fs.found /\ last_fs.result = "NFS4_OK") =>
    /\ ~Exists(fs, last_fs.path)
    /\ get_filehandle_by_path(fmanager, last_fs.path) = {}
    /\ last_fs.touched


\* the entry READDIR gives for the name of index i of the listing
EntryOf(fnames, i) ==
  [cookie |-> i + 3, name |-> fnames[i + 1]]

\* the entry of index i stands in the reply
Emitted(i) ==
  \E k \in DOMAIN last_fs.entries :
    last_fs.entries[k] = EntryOf(last_fs.dir, i)

\* the indices up to i whose own cookie is greater than the one supplied
After(i) ==
  {j \in 0..i : j + 3 > last_fs.cookie}

\* the bytes of the names of a set of indices, 8 + name.len() + 5 each
RECURSIVE DirBytes(_)
DirBytes(js) ==
  IF js = {} THEN 0
  ELSE LET j == CHOOSE x \in js : TRUE
       IN 8 + Len(filename(last_fs.dir[j + 1])) + 5 + DirBytes(js \ {j})

\* the budgets of the request cover the entry of index i: dircount is 0,
\* or dircount and maxcount are greater than what the entries up to i
\* take, 128 bytes and 200 for each entry counted for maxcount
WithinBudgets(i) ==
  \/ last_fs.dircount = 0
  \/ /\ last_fs.dircount > DirBytes(After(i))
     /\ last_fs.maxcount > 128 + 200 * Cardinality(After(i))

\* C26 as claimed: a READDIR that succeeds gives only entries whose own
\* cookie (index + 3) is greater than or equal to the cookie supplied, and,
\* where no budget limits it, every such entry.
ReaddirFromCookie ==
  (last_fs.op = "READDIR" /\ last_fs.status = "NFS4_OK")
    => /\ \A k \in DOMAIN last_fs.entries :
            last_fs.entries[k].cookie >= last_fs.cookie
       /\ last_fs.dircount = 0
            => \A i \in 0..(Len(last_fs.dir) - 1) :
                 i + 3 >= last_fs.cookie => Emitted(i)

\* C26 amended: a READDIR that succeeds gives exactly the entries of the
\* listing whose own cookie (index + 3) is strictly greater than the cookie
\* supplied and which the budgets cover.
ReaddirAfterCookie ==
  (last_fs.op = "READDIR" /\ last_fs.status = "NFS4_OK")
    => /\ \A i \in 0..(Len(last_fs.dir) - 1) :
            Emitted(i) <=> (i + 3 > last_fs.cookie /\ WithinBudgets(i))
       /\ \A k \in DOMAIN last_fs.entries :
            \E i \in 0..(Len(last_fs.dir) - 1) :
              last_fs.entries[k] = EntryOf(last_fs.dir, i)

\* C26 witness: a directory of three names was read from the cookie of its
\* first entry, and the reply starts with the second.
ReaddirAfterCookieWitness ==
  /\ last_fs.op = "READDIR"
  /\ last_fs.status = "NFS4_OK"
  /\ last_fs.cookie = 3
  /\ Len(last_fs.dir) = 3
  /\ Len(last_fs.entries) = 2
  /\ last_fs.entries[1] = EntryOf(last_fs.dir, 1)

\* C27 as claimed: a READDIR reply has eof set exactly when every entry
\* after the position asked for stands in the reply.
ReaddirEofIffAll ==
  (last_fs.op = "READDIR" /\ last_fs.status = "NFS4_OK")
    => (last_fs.eof
          <=> \A i \in 0..(Len(last_fs.dir) - 1) :
                i + 3 > last_fs.cookie => Emitted(i))

\* C28 as claimed: READDIR fails with NOT_SAME exactly when the cookie is
\* not 0 and the verifier supplied differs from the 8 bytes the server gives
\* for the names now in the directory.
ReaddirNotSameIff ==
  (last_fs.op = "READDIR"
     /\ last_fs.status \in {"NFS4_OK", "NFS4ERR_NOT_SAME"})
    => (last_fs.status = "NFS4ERR_NOT_SAME"
          <=> /\ last_fs.cookie # 0
              /\ last_fs.cookieverf # padded_cookieverf(last_fs.dir))


\* C29 as claimed: the bytes gathered for one record never exceed MAX; a
\* record whose fragments add up to more is rejected, not decoded.
RecordWithinCap ==
  transport.size <= MAX

\* C30 as claimed: after a record failed to decode and GarbageArgs was sent,
\* the server does not end the connection while the client keeps it open,
\* and the record that failed has left the buffer, so that the request
\* behind it is decoded next.
DecodeErrorKeepsServing ==
  (/\ transport.sent # << >>
   /\ transport.sent[Len(transport.sent)] = "GarbageArgs"
   /\ transport.item = "Err"
   /\ ~transport.eof)
    => /\ transport.state # "closed"
       /\ transport.advanced

\* C34 as claimed: a confirm_client that returns an error leaves the client
\* table as it was before the call.
ConfirmErrorKeepsTable ==
  (last_call.type = "ConfirmClient" /\ ~last_call.ok)
    => db = last_call.db

\* C33 as claimed: a decode that returns Ok(None) because a later fragment
\* is not yet whole has taken nothing off the buffer, so the fragments before
\* it are still there for the call that delivers the record.
NeedMoreKeepsFragments ==
  transport.item = "None" => ~transport.advanced

\* ------------------------------------------------------------------------
\* SpecRemove: REMOVE as an operation of a COMPOUND, the file manager
\* running beside the connection.
\* ------------------------------------------------------------------------

\* A mutation of Remove4args::execute: the success branch answers NFS4_OK.
Remove4args_ok(fh, removed) ==
  IF removed = "Ok"
    THEN NfsOpResponse(fh, TRUE, NfsResOp4("REMOVE", "NFS4_OK", 0, 0, NoFh),
                       "NFS4_OK")
    ELSE NfsOpResponse(fh, TRUE,
                       NfsResOp4("REMOVE", "NFS4ERR_STALE", 0, 0, NoFh),
                       "NFS4ERR_STALE")

\* Remove4args::execute, after the current filehandle was looked for and
\* remove_file answered: removed is "None" when the request has no current
\* filehandle and "Ok" when remove_file returned Ok.  The result of the
\* success branch is Remove4res {status: Nfs4Ok, cinfo: {false, 0, 0}}; the
\* two zero fields of the result stand for cinfo.before and cinfo.after.
Remove4args_execute(fh, removed) ==
  IF removed = "Ok"
    THEN NfsOpResponse(fh, TRUE, NfsResOp4("REMOVE", "NFS4_OK", 0, 0, NoFh),
                       "NFS4ERR_STALE")
    ELSE NfsOpResponse(fh, TRUE,
                       NfsResOp4("REMOVE", "NFS4ERR_STALE", 0, 0, NoFh),
                       "NFS4ERR_STALE")

\* REMOVE in a COMPOUND: Remove4args::execute.  request.current_filehandle()
\* asks the file manager for the filehandle of the current id; remove_file
\* takes the child off the backing store and touches the parent.  An Err of
\* remove_file runs into todo!(): the connection's task panics and the
\* connection is gone.
OpRemove(target) ==
  /\ pc = "compound"
  /\ backend # None
  /\ fmanager.alive
  /\ LET g == IF filehandle = NoFh
                THEN [self |-> fmanager, res |-> {}]
                ELSE GetFilehandle_id(fmanager, fs, filehandle)
     IN IF g.res = {}
          THEN /\ fmanager' = g.self
               /\ handed' = forget_dropped(handed, fmanager, g.self)
               /\ last_fs' = [NoFs EXCEPT !.op = "REMOVE",
                                          !.status = "NFS4ERR_STALE",
                                          !.result = "NFS4ERR_STALE"]
               /\ Evaluate(NfsArgOp("REMOVE", target, None, 0, 0),
                           Remove4args_execute(filehandle, "None"))
               /\ UNCHANGED fs
          ELSE LET fh == CHOOSE e \in g.res : TRUE
                   path == Append(fh.path, target)
                   out == RemoveFile(g.self, backend, fs, path, clock)
               IN /\ \A e \in get_filehandle_by_path(g.self, parent(path)) :
                       e.version < MaxVersion
                  /\ fs' = out.vfs
                  /\ fmanager' = out.self
                  /\ handed' = forget_dropped(handed, fmanager, out.self)
                  /\ last_fs' =
                       [NoFs EXCEPT
                          !.op = "REMOVE",
                          !.status = IF out.self.alive
                                       THEN "NFS4ERR_STALE"
                                       ELSE "NFS4ERR_SERVERFAULT",
                          !.result = IF out.self.alive
                                       THEN "NFS4_OK"
                                       ELSE "NFS4ERR_SERVERFAULT",
                          !.id = fh.id, !.path = path,
                          !.found = Exists(fs, path),
                          !.was_dir = is_dir(fs, path)]
                  /\ IF out.self.alive
                       THEN Evaluate(NfsArgOp("REMOVE", target, None, 0, 0),
                                     Remove4args_execute(filehandle, "Ok"))
                       ELSE /\ pc' = "accept"
                            /\ UNCHANGED <<serving, nargs, idx, resarray,
                                           last_status, filehandle, failed_at,
                                           last_op, reply, actorvars,
                                           wirevars, leasevars, last_call>>
  /\ UNCHANGED <<backend, write_caches, request, filehandle_cache,
                 write_cache, unstable>>
  /\ UNCHANGED cmvars

NextRemove ==
  \/ \E b \in Backends : FileManager_new(b)
  \/ \E c \in Conns : Accept(c)
  \/ Disconnect
  \/ \E n \in 0..(MaxOps + 1) : Receive(n)
  \/ OpPutRootFh
  \/ OpGetFh
  \/ \E target \in Names : OpRemove(target)
  \/ Reply

SpecRemove == Init /\ [][NextRemove]_vars

\* C40: a REMOVE that takes a file off the backing store answers the status
\* STALE with a result of status OK; the COMPOUND stops there, the removal is
\* the last entry of its resarray, its reply carries STALE, and the file is
\* gone.
RemoveStaleStopsCompound ==
  (last_op.op = "REMOVE" /\ last_fs.op = "REMOVE" /\ last_fs.found
     /\ ~last_fs.was_dir)
    => /\ last_op.status = "NFS4ERR_STALE"
       /\ last_op.result.status = "NFS4_OK"
       /\ pc # "compound"
       /\ last_status = "NFS4ERR_STALE"
       /\ resarray # << >>
       /\ resarray[Len(resarray)] = last_op.result
       /\ reply.sent => /\ reply.status = "NFS4ERR_STALE"
                        /\ reply.resarray = resarray
       /\ ~Exists(fs, last_fs.path)

\* C40's case: a file was removed by the second of three operations and the
\* reply went out.
RemoveStaleStopsCompoundWitness ==
  /\ last_op.op = "REMOVE"
  /\ last_fs.op = "REMOVE"
  /\ last_fs.found
  /\ ~last_fs.was_dir
  /\ nargs = MaxOps + 1
  /\ idx < nargs
  /\ reply.sent

\* C39 as claimed: CLOSE, OPEN_CONFIRM, REMOVE or OPEN on a request without a
\* current filehandle answers an error status and the connection's task goes
\* on.
NoFilehandleAnswersError ==
  (last_fs.op \in {"CLOSE", "OPEN_CONFIRM", "REMOVE", "OPEN"}
     /\ last_fs.seen = {})
    => /\ request.alive
       /\ last_fs.status \notin {"NFS4_OK", "panic"}

\* C37 as claimed: an OPEN_CONFIRM that follows a successful OPEN, whatever
\* its mode, completes with status OK and a stateid.
OpenThenConfirmOk ==
  (last_fs.op = "OPEN_CONFIRM" /\ last_fs.how # None)
    => /\ last_fs.status = "NFS4_OK"
       /\ last_fs.stateid # {}

\* C38 as claimed: an owner that holds a share reservation on the file it
\* has just opened is answered by OPEN_CONFIRM with the stateid of a
\* reservation of its own.
ConfirmReturnsOwnStateid ==
  (/\ last_fs.op = "OPEN_CONFIRM"
   /\ last_fs.status = "NFS4_OK"
   /\ \E l \in fmanager.lockdb :
        l.filehandle_id = last_fs.id /\ last_fs.caller = {l.owner})
    => last_fs.owner = last_fs.caller

\* C35 as claimed: a READDIR that goes on where the READDIR before it
\* stopped short of the end, with the cookie of its last entry and the
\* cookieverf of its reply, over the same listing of the same directory,
\* succeeds.
ReaddirWalkSucceeds ==
  (last_fs.op = "READDIR" /\ last_fs.continues)
    => last_fs.status = "NFS4_OK"

ReadAttrs(attrs_raw) ==
  /\ attrmask' = [step |-> "decoded", raw |-> attrs_raw,
                  attrs |-> read_attrs(attrs_raw), bitmap |-> << >>]
  /\ UNCHANGED <<src, transport, listener, cmvars, actorvars, last_call,
                 connvars, leasevars, fmvars>>

\* the attribute list decoded last is encoded by file_attrs_to_bitmap
WriteAttrs ==
  /\ attrmask.step = "decoded"
  /\ attrmask' = [attrmask EXCEPT
                    !.step = "encoded",
                    !.bitmap = file_attrs_to_bitmap(attrmask.attrs)]
  /\ UNCHANGED <<src, transport, listener, cmvars, actorvars, last_call,
                 connvars, leasevars, fmvars>>

NextAttr ==
  \/ \E n \in 0..MaxWords : \E attrs_raw \in BitmapsOf(n) :
       ReadAttrs(attrs_raw)
  \/ WriteAttrs

SpecAttr == Init /\ [][NextAttr]_vars

\* C31 as claimed: encoding the attribute list decoded from a bitmap over
\* the supported attributes yields the bitmap again.
BitmapRoundTrip ==
  attrmask.step = "encoded" => attrmask.bitmap = attrmask.raw

\* C31, corrected: encoding the attribute list decoded from a bitmap over
\* the supported attributes yields the bitmap again if the bitmap is a
\* single word or ends with a word that is not zero.
BitmapRoundTripTrimmed ==
  (/\ attrmask.step = "encoded"
   /\ attrmask.raw # << >>
   /\ Len(attrmask.raw) = 1 \/ attrmask.raw[Len(attrmask.raw)] # {})
    => attrmask.bitmap = attrmask.raw

\* C31's case: a bitmap of two words, each with a bit set, went through
\* read_attrs and file_attrs_to_bitmap.
BitmapRoundTripWitness ==
  /\ attrmask.step = "encoded"
  /\ Len(attrmask.raw) = 2
  /\ attrmask.raw[1] # {}
  /\ attrmask.raw[2] # {}
  /\ Len(attrmask.attrs) > 2

\* ------------------------------------------------------------------------
\* SpecServe: the accept loop of NFSServer::start and the peers of the
\* listener.  What a peer does is up to the peer; the steps of the server
\* are taken whenever they stay possible.
\* ------------------------------------------------------------------------

\* a peer connects: the connection waits in the backlog of the listener
TcpConnect(c) ==
  /\ c \notin listener.accepted
  /\ \A k \in 1..Len(listener.backlog) : listener.backlog[k] # c
  /\ listener' = [listener EXCEPT !.backlog = Append(@, c)]
  /\ UNCHANGED <<src, transport, attrmask, cmvars, actorvars, last_call,
                 connvars, leasevars, fmvars>>

\* a peer that is connected sends a request
TcpSend(c) ==
  /\ \/ c \in listener.accepted
     \/ \E k \in 1..Len(listener.backlog) : listener.backlog[k] = c
  /\ c \notin listener.unread
  /\ listener' = [listener EXCEPT !.unread = @ \cup {c}]
  /\ UNCHANGED <<src, transport, attrmask, cmvars, actorvars, last_call,
                 connvars, leasevars, fmvars>>

\* the peer the server reads from closes: nfs_transport.next() is None and
\* the inner loop breaks
TcpClose(c) ==
  /\ c \in listener.accepted
  /\ c \notin listener.unread
  /\ listener' = [listener EXCEPT !.accepted = {}]
  /\ UNCHANGED <<src, transport, attrmask, cmvars, actorvars, last_call,
                 connvars, leasevars, fmvars>>

\* listener.accept() of the outer loop, which is reached at the start and
\* when the inner loop of the connection accepted before has ended
ListenerAccept ==
  /\ listener.accepted = {}
  /\ listener.backlog # << >>
  /\ listener' = [listener EXCEPT !.accepted = {Head(listener.backlog)},
                                  !.backlog = Tail(@)]
  /\ UNCHANGED <<src, transport, attrmask, cmvars, actorvars, last_call,
                 connvars, leasevars, fmvars>>

\* one round of the inner loop: nfs_transport.next() yields the request of
\* the accepted peer, service.call answers it, the reply is sent
ServeInline ==
  /\ \E c \in listener.accepted \cap listener.unread :
       listener' = [listener EXCEPT !.unread = @ \ {c}]
  /\ UNCHANGED <<src, transport, attrmask, cmvars, actorvars, last_call,
                 connvars, leasevars, fmvars>>

NextServe ==
  \/ \E c \in Peers : TcpConnect(c)
  \/ \E c \in Peers : TcpSend(c)
  \/ \E c \in Peers : TcpClose(c)
  \/ ListenerAccept
  \/ ServeInline

SpecServe ==
  /\ Init
  /\ [][NextServe]_vars
  /\ WF_vars(ListenerAccept)
  /\ WF_vars(ServeInline)

\* C32 as claimed: the request a peer has sent is answered, or the server is
\* at work on a request of the peer it has accepted; it does not stay
\* unanswered while the accepted peer is idle.
RequestEventuallyAnswered ==
  \A c \in Peers :
    (c \in listener.unread)
      ~> (c \notin listener.unread
            \/ listener.accepted \cap listener.unread # {})
====
